---- MODULE Spec2Model ----
(***************************************************************************)
(* Model of the tarregaSheets backend.                                     *)
(*                                                                         *)
(*   Part I   ConversionQueue (app/services/conversion_queue.py): the job  *)
(*            registry, the work queue, the worker threads and the client  *)
(*            threads that call queue_conversion / get_job_status /        *)
(*            retry_conversion / stop.                                     *)
(*   Part II  upload_file (app/routes/upload.py): the upload pipeline,     *)
(*            one statement group per step, and validate_musicxml.         *)
(*   Part III convert_musicxml (app/services/converter.py): the wrapping   *)
(*            layers around the external rendering tool.                   *)
(*   Part IV  the pieces routes (app/routes/pieces.py) over the pieces     *)
(*            collection.                                                  *)
(*   Part V   the text functions of the parser (app/services/parser.py):   *)
(*            _sanitize_musicxml and extract_parse_error_details.          *)
(*   Part VI  get_conversion_status (app/routes/conversions.py) polling a  *)
(*            job while _update_job and retry_conversion write its fields. *)
(***************************************************************************)
EXTENDS Integers, Sequences, FiniteSets, TLC

(* ------------------------------ bounds --------------------------------- *)
\* number of queue_conversion calls made in a behaviour
MaxJobs == 2
\* number of worker threads the queue is constructed with
max_workers == 2
\* number of job attempts that fail in a behaviour
MaxFailures == 1

JobIds == 1..MaxJobs
\* ids a client may pass to retry_conversion: MaxJobs + 1 is never a job
RetryIds == 1..(MaxJobs + 1)
Workers == 1..max_workers
\* the client threads that call retry_conversion concurrently
RetryCallers == {"r1", "r2"}

\* Python's None, one per type of value it stands in for
None == "None"
NoneId == 1 - 1
NoneInt == 0 - 1
NoneFile == [job |-> NoneId, kind |-> None, n |-> NoneId]
NoRet == [op |-> "none"]

VARIABLES
    jobs,       \* _jobs: conversion_id -> ConversionJob
    queue,      \* _queue: FIFO of work items (a conversion_id or None)
    running,    \* _running
    started,    \* start() has spawned the worker threads
    files,      \* blob store (GridFS): the set of stored file ids
    wpc,        \* worker thread -> position in _worker_loop/_process_conversion
    wtask,      \* worker thread -> conversion_id of the task it holds
    wdone,      \* worker thread -> pipeline steps that succeeded in this attempt
    wxml,       \* worker thread -> local musicxml_file_id
    wmidi,      \* worker thread -> local midi_file_id
    epc,        \* enqueuing client: position in queue_conversion / status poll
    eid,        \* enqueuing client: conversion_id being enqueued
    rpc,        \* retrying client -> position in retry_conversion
    rarg,       \* retrying client -> conversion_id argument
    retries,    \* conversion_id -> number of accepted retry_conversion calls
    failures,   \* conversion_id -> number of times the job was marked failed
    spc,        \* stopping client: position in stop()
    sleft,      \* stopping client: sentinels still to push
    ret         \* value returned by the API call that made the last step

VARIABLES
    up,         \* upload_file: the request's inputs, locals and position
    calls,      \* the parser, converter and storage calls made, in order
    response,   \* the HTTP response of the upload request
    validation  \* validate_musicxml: the last response of the endpoint

VARIABLES
    conv        \* a direct call of convert_musicxml: inputs, position, result

VARIABLES
    pieces,     \* db.pieces: piece id -> stored document
    clock,      \* the last reading datetime.now(timezone.utc) gave
    uuids,      \* number of uuid4() values drawn so far
    bulk,       \* bulk_archive_pieces: the request between its two awaits
    reply       \* the HTTP response of the last pieces request

VARIABLES
    san,        \* _sanitize_musicxml applied to a text, and to its own output
    det         \* a call of extract_parse_error_details: inputs and result

VARIABLES
    live        \* one job, its lock and a request polling its status

qvars == <<jobs, queue, running, started, files, wpc, wtask, wdone, wxml, wmidi,
           epc, eid, rpc, rarg, retries, failures, spc, sleft, ret>>

\* the queue's variables other than the blob store
qrest == <<jobs, queue, running, started, wpc, wtask, wdone, wxml, wmidi,
           epc, eid, rpc, rarg, retries, failures, spc, sleft, ret>>

uvars == <<up, calls, response>>

cvars == <<conv>>

pvars == <<pieces, clock, uuids, bulk, reply>>

fvars == <<san, det, live>>

\* what upload_file leaves alone besides the blob store
urest == <<qrest, validation, cvars, pvars, fvars>>

vars == <<qvars, uvars, validation, cvars, pvars, fvars>>

(* --------------------------- ConversionJob ----------------------------- *)
NewJob ==
    [status |-> "queued", progress |-> 0, error_message |-> None,
     output_musicxml_file_id |-> NoneFile, output_midi_file_id |-> NoneFile,
     completed_at |-> NoneInt, updated_at |-> 0]

\* datetime.now(): a job's time stamps are the number of stamps it received
Now(job) == job.updated_at + 1

\* _update_job: None arguments leave the field alone; updated_at is stamped
UpdateJob(job, status, progress, error_message, xml_id, midi_id, completed) ==
    [status |-> IF status # None THEN status ELSE job.status,
     progress |-> IF progress # NoneInt THEN progress ELSE job.progress,
     error_message |-> IF error_message # None THEN error_message
                       ELSE job.error_message,
     output_musicxml_file_id |-> IF xml_id # NoneFile THEN xml_id
                                 ELSE job.output_musicxml_file_id,
     output_midi_file_id |-> IF midi_id # NoneFile THEN midi_id
                             ELSE job.output_midi_file_id,
     completed_at |-> IF completed THEN Now(job) ELSE job.completed_at,
     updated_at |-> Now(job)]

\* the with-lock body of _update_job: unknown ids are ignored
UpdateJobs(id, status, progress, error_message, xml_id, midi_id, completed) ==
    IF id \in DOMAIN jobs
    THEN [jobs EXCEPT ![id] = UpdateJob(@, status, progress, error_message,
                                        xml_id, midi_id, completed)]
    ELSE jobs

\* storage.upload_file: a fresh file id for a blob of this job and kind
NewFileId(id, kind) ==
    [job |-> id, kind |-> kind,
     n |-> 1 + Cardinality({f \in files : f.job = id /\ f.kind = kind})]

QInit ==
    /\ jobs = <<>>
    /\ queue = <<>>
    /\ running = FALSE
    /\ started = FALSE
    /\ files = {}
    /\ wpc = [w \in Workers |-> "unstarted"]
    /\ wtask = [w \in Workers |-> NoneId]
    /\ wdone = [w \in Workers |-> {}]
    /\ wxml = [w \in Workers |-> NoneFile]
    /\ wmidi = [w \in Workers |-> NoneFile]
    /\ epc = "idle"
    /\ eid = NoneId
    /\ rpc = [r \in RetryCallers |-> "idle"]
    /\ rarg = [r \in RetryCallers |-> NoneId]
    /\ retries = [j \in JobIds |-> 0]
    /\ failures = [j \in JobIds |-> 0]
    /\ spc = "idle"
    /\ sleft = 0
    /\ ret = NoRet

(* ------------------------------ start() -------------------------------- *)
\* start(): returns at once when already running, else sets _running and
\* spawns max_workers threads, each entering _worker_loop.  The worker
\* threads are spawned once, at process start-up (get_queue).
Start ==
    /\ IF running
       THEN UNCHANGED <<running, started, wpc>>
       ELSE /\ ~started
            /\ running' = TRUE
            /\ started' = TRUE
            /\ wpc' = [w \in Workers |-> "loop"]
    /\ UNCHANGED <<jobs, queue, files, wtask, wdone, wxml, wmidi, epc, eid,
                   rpc, rarg, retries, failures, spc, sleft>>

(* ------------------------------- stop() -------------------------------- *)
\* stop() that leaves _running set and pushes a single sentinel
StopFlagOneSentinel ==
    /\ started
    /\ spc = "idle"
    /\ spc' = "put"
    /\ sleft' = 1
    /\ UNCHANGED <<jobs, queue, running, started, files, wpc, wtask, wdone, wxml,
                   wmidi, epc, eid, rpc, rarg, retries, failures>>

\* self._running = False
StopFlag ==
    /\ started
    /\ spc = "idle"
    /\ running' = FALSE
    /\ spc' = "put"
    /\ sleft' = max_workers
    /\ UNCHANGED <<jobs, queue, started, files, wpc, wtask, wdone, wxml, wmidi,
                   epc, eid, rpc, rarg, retries, failures>>

\* for _ in range(self.max_workers): self._queue.put(None)
StopPut ==
    /\ spc = "put"
    /\ IF sleft > 0
       THEN /\ queue' = Append(queue, NoneId)
            /\ sleft' = sleft - 1
            /\ spc' = IF sleft = 1 THEN "done" ELSE "put"
       ELSE /\ spc' = "done"
            /\ UNCHANGED <<queue, sleft>>
    /\ UNCHANGED <<jobs, running, started, files, wpc, wtask, wdone, wxml, wmidi,
                   epc, eid, rpc, rarg, retries, failures>>

(* -------------------------- queue_conversion() ------------------------- *)
\* conversion_id = uuid4(); with self._lock: self._jobs[conversion_id] = job
QueueConversionStore ==
    /\ epc = "idle"
    /\ Cardinality(DOMAIN jobs) < MaxJobs
    /\ LET id == Cardinality(DOMAIN jobs) + 1 IN
        /\ jobs' = jobs @@ (id :> NewJob)
        /\ eid' = id
    /\ epc' = "put"
    /\ UNCHANGED <<queue, running, started, files, wpc, wtask, wdone, wxml,
                   wmidi, rpc, rarg, retries, failures, spc, sleft>>

\* self._queue.put({...}); return conversion_id
QueueConversionPut ==
    /\ epc = "put"
    /\ queue' = Append(queue, eid)
    /\ epc' = "returned"
    /\ UNCHANGED <<jobs, running, started, files, wpc, wtask, wdone, wxml, wmidi,
                   eid, rpc, rarg, retries, failures, spc, sleft>>

(* --------------------------- get_job_status() -------------------------- *)
\* the status poll the enqueuing client makes right after queue_conversion
\* returned (test_conversion_queue.py:105): with self._lock: self._jobs.get(id)
GetJobStatus ==
    /\ epc = "returned"
    /\ epc' = "idle"
    /\ UNCHANGED <<jobs, queue, running, started, files, wpc, wtask, wdone, wxml,
                   wmidi, eid, rpc, rarg, retries, failures, spc, sleft>>

(* -------------------------- retry_conversion() ------------------------- *)
\* a reset that forgets job.status = "queued"
RetryResetKeepsStatus(job) ==
    [job EXCEPT !.progress = 0, !.error_message = None, !.updated_at = Now(job)]

\* the job fields retry_conversion resets under the lock
RetryReset(job) ==
    [job EXCEPT !.status = "queued", !.progress = 0, !.error_message = None,
                !.updated_at = Now(job)]

\* the check without "or job.status != 'failed'": any known job is retried
RetryConversionCheckAnyStatus(r, id) ==
    /\ rpc[r] = "idle"
    /\ IF id \notin DOMAIN jobs
       THEN UNCHANGED <<jobs, rpc, rarg, retries>>
       ELSE /\ jobs' = [jobs EXCEPT ![id] = RetryReset(@)]
            /\ rpc' = [rpc EXCEPT ![r] = "put"]
            /\ rarg' = [rarg EXCEPT ![r] = id]
            /\ retries' = [retries EXCEPT ![id] = @ + 1]
    /\ UNCHANGED <<queue, running, started, files, wpc, wtask, wdone, wxml, wmidi,
                   epc, eid, failures, spc, sleft>>

\* the stamp job.updated_at = datetime.now() moved before the status check
RetryConversionCheckStamps(r, id) ==
    /\ rpc[r] = "idle"
    /\ IF id \notin DOMAIN jobs
       THEN UNCHANGED <<jobs, rpc, rarg, retries>>
       ELSE IF jobs[id].status # "failed"
       THEN /\ jobs' = [jobs EXCEPT ![id].updated_at = Now(jobs[id])]
            /\ UNCHANGED <<rpc, rarg, retries>>
       ELSE /\ jobs' = [jobs EXCEPT ![id] = RetryReset(@)]
            /\ rpc' = [rpc EXCEPT ![r] = "put"]
            /\ rarg' = [rarg EXCEPT ![r] = id]
            /\ retries' = [retries EXCEPT ![id] = @ + 1]
    /\ UNCHANGED <<queue, running, started, files, wpc, wtask, wdone, wxml, wmidi,
                   epc, eid, failures, spc, sleft>>

\* with self._lock: the check, and the reset when the job is failed
RetryConversionCheck(r, id) ==
    /\ rpc[r] = "idle"
    /\ IF id \notin DOMAIN jobs \/ jobs[id].status # "failed"
       THEN UNCHANGED <<jobs, rpc, rarg, retries>>
       ELSE /\ jobs' = [jobs EXCEPT ![id] = RetryReset(@)]
            /\ rpc' = [rpc EXCEPT ![r] = "put"]
            /\ rarg' = [rarg EXCEPT ![r] = id]
            /\ retries' = [retries EXCEPT ![id] = @ + 1]
    /\ UNCHANGED <<queue, running, started, files, wpc, wtask, wdone, wxml, wmidi,
                   epc, eid, failures, spc, sleft>>

\* self._queue.put({...}); return True
RetryConversionPut(r) ==
    /\ rpc[r] = "put"
    /\ queue' = Append(queue, rarg[r])
    /\ rpc' = [rpc EXCEPT ![r] = "idle"]
    /\ rarg' = [rarg EXCEPT ![r] = NoneId]
    /\ UNCHANGED <<jobs, running, started, files, wpc, wtask, wdone, wxml, wmidi,
                   epc, eid, retries, failures, spc, sleft>>

(* ---------------------------- _worker_loop ----------------------------- *)
\* outcomes of the calls a job's processing makes
ConvertOutcomes == {"ok", "ConversionError", "ValueError"}
ValidateOutcomes == {TRUE, FALSE}
MidiOutcomes == {"ok", "MusicXMLParseError"}
UploadOutcomes == {"ok", "error"}
PipelineSteps == {"convert", "validate", "midi", "upload_musicxml", "upload_midi"}

\* the number of failed attempts so far, over all jobs
RECURSIVE SumUpTo(_, _)
SumUpTo(f, n) == IF n = 0 THEN 0 ELSE f[n] + SumUpTo(f, n - 1)
\* a call of the pipeline may still fail in this behaviour
MayFail == SumUpTo(failures, MaxJobs) < MaxFailures
Failing(outcomes, ok) == IF MayFail THEN outcomes ELSE {ok}

\* while self._running:
WorkerLoopCond(w) ==
    /\ wpc[w] = "loop"
    /\ wpc' = [wpc EXCEPT ![w] = IF running THEN "get" ELSE "exited"]
    /\ UNCHANGED <<jobs, queue, running, started, files, wtask, wdone, wxml,
                   wmidi, epc, eid, rpc, rarg, retries, failures, spc, sleft>>

\* task = self._queue.get(timeout=1.0): queue.Empty -> continue;
\* None -> break; else the task's conversion_id is handed to _process_conversion
WorkerGet(w) ==
    /\ wpc[w] = "get"
    /\ IF queue = <<>>
       THEN /\ wpc' = [wpc EXCEPT ![w] = "loop"]
            /\ UNCHANGED <<queue, wtask>>
       ELSE /\ queue' = Tail(queue)
            /\ IF Head(queue) = NoneId
               THEN /\ wpc' = [wpc EXCEPT ![w] = "exited"]
                    /\ UNCHANGED wtask
               ELSE /\ wpc' = [wpc EXCEPT ![w] = "lookup"]
                    /\ wtask' = [wtask EXCEPT ![w] = Head(queue)]
    /\ UNCHANGED <<jobs, running, started, files, wdone, wxml, wmidi, epc, eid,
                   rpc, rarg, retries, failures, spc, sleft>>

(* -------------------------- _process_conversion ------------------------ *)
\* _process_conversion returns to the loop; its locals are gone
Return(w) ==
    /\ wpc' = [wpc EXCEPT ![w] = "loop"]
    /\ wtask' = [wtask EXCEPT ![w] = NoneId]
    /\ wdone' = [wdone EXCEPT ![w] = {}]
    /\ wxml' = [wxml EXCEPT ![w] = NoneFile]
    /\ wmidi' = [wmidi EXCEPT ![w] = NoneFile]

\* a step of the try block succeeded: on to the next position
Proceed(w, step, next) ==
    /\ wpc' = [wpc EXCEPT ![w] = next]
    /\ wdone' = [wdone EXCEPT ![w] = @ \cup {step}]
    /\ UNCHANGED wtask

\* with self._lock: job = self._jobs.get(conversion_id); if not job: return
ProcessLookup(w) ==
    /\ wpc[w] = "lookup"
    /\ IF wtask[w] \in DOMAIN jobs
       THEN /\ wpc' = [wpc EXCEPT ![w] = "u10"]
            /\ UNCHANGED <<wtask, wdone, wxml, wmidi>>
       ELSE Return(w)
    /\ UNCHANGED <<jobs, queue, running, started, files, epc, eid, rpc, rarg,
                   retries, failures, spc, sleft>>

\* no except clause: the exception leaves _process_conversion and the loop
MarkFailedRaises(w, message) ==
    /\ wpc' = [wpc EXCEPT ![w] = "exited"]
    /\ failures' = [failures EXCEPT ![wtask[w]] = @ + 1]
    /\ UNCHANGED <<jobs, wtask, wdone, wxml, wmidi>>

\* the except clauses: _update_job(status="failed", error_message=...)
MarkFailed(w, message) ==
    /\ jobs' = UpdateJobs(wtask[w], "failed", NoneInt, message, NoneFile, NoneFile, FALSE)
    /\ failures' = [failures EXCEPT ![wtask[w]] = @ + 1]
    /\ Return(w)

\* _update_job(conversion_id, status="in_progress", progress=10)
ProcessMarkInProgress(w) ==
    /\ wpc[w] = "u10"
    /\ jobs' = UpdateJobs(wtask[w], "in_progress", 10, None, NoneFile, NoneFile, FALSE)
    /\ wpc' = [wpc EXCEPT ![w] = "u30"]
    /\ UNCHANGED <<queue, running, started, files, wtask, wdone, wxml, wmidi,
                   epc, eid, rpc, rarg, retries, failures, spc, sleft>>

\* _update_job(conversion_id, progress=30)
ProcessProgress30(w) ==
    /\ wpc[w] = "u30"
    /\ jobs' = UpdateJobs(wtask[w], None, 30, None, NoneFile, NoneFile, FALSE)
    /\ wpc' = [wpc EXCEPT ![w] = "convert"]
    /\ UNCHANGED <<queue, running, started, files, wtask, wdone, wxml, wmidi,
                   epc, eid, rpc, rarg, retries, failures, spc, sleft>>

\* convert_musicxml(...) and then _update_job(progress=50), or the except
\* clause its exception reaches
ProcessConvert(w) ==
    /\ wpc[w] = "convert"
    /\ \E outcome \in Failing(ConvertOutcomes, "ok") :
        CASE outcome = "ok" ->
                /\ jobs' = UpdateJobs(wtask[w], None, 50, None, NoneFile, NoneFile, FALSE)
                /\ Proceed(w, "convert", "validate")
                /\ UNCHANGED <<failures, wxml, wmidi>>
          [] outcome = "ConversionError" ->
                MarkFailed(w, "Conversion failed")
          [] outcome = "ValueError" ->
                MarkFailed(w, "Unexpected error: Cannot convert (same type)")
    /\ UNCHANGED <<queue, running, started, files, epc, eid, rpc, rarg, retries,
                   spc, sleft>>

\* validate_conversion_output(...): False raises ConversionError; True goes
\* on to _update_job(progress=70)
ProcessValidate(w) ==
    /\ wpc[w] = "validate"
    /\ \E valid \in Failing(ValidateOutcomes, TRUE) :
        IF valid
        THEN /\ jobs' = UpdateJobs(wtask[w], None, 70, None, NoneFile, NoneFile, FALSE)
             /\ Proceed(w, "validate", "midi")
             /\ UNCHANGED <<failures, wxml, wmidi>>
        ELSE MarkFailed(w, "Validation failed: Invalid MusicXML output")
    /\ UNCHANGED <<queue, running, started, files, epc, eid, rpc, rarg, retries,
                   spc, sleft>>

\* generate_midi(...) and then _update_job(progress=85); MusicXMLParseError
\* is not a ConversionError and reaches the generic except clause
ProcessGenerateMidi(w) ==
    /\ wpc[w] = "midi"
    /\ \E outcome \in Failing(MidiOutcomes, "ok") :
        IF outcome = "ok"
        THEN /\ jobs' = UpdateJobs(wtask[w], None, 85, None, NoneFile, NoneFile, FALSE)
             /\ Proceed(w, "midi", "upload_musicxml")
             /\ UNCHANGED <<failures, wxml, wmidi>>
        ELSE MarkFailed(w, "Unexpected error: Failed to generate MIDI")
    /\ UNCHANGED <<queue, running, started, files, epc, eid, rpc, rarg, retries,
                   spc, sleft>>

\* musicxml_file_id = asyncio.run(upload_file(converted_musicxml, ...))
ProcessUploadMusicxml(w) ==
    /\ wpc[w] = "upload_musicxml"
    /\ \E outcome \in Failing(UploadOutcomes, "ok") :
        IF outcome = "ok"
        THEN /\ files' = files \cup {NewFileId(wtask[w], "musicxml")}
             /\ wxml' = [wxml EXCEPT ![w] = NewFileId(wtask[w], "musicxml")]
             /\ Proceed(w, "upload_musicxml", "upload_midi")
             /\ UNCHANGED <<jobs, failures, wmidi>>
        ELSE /\ MarkFailed(w, "Unexpected error: storage")
             /\ UNCHANGED files
    /\ UNCHANGED <<queue, running, started, epc, eid, rpc, rarg, retries, spc,
                   sleft>>

\* a MIDI upload whose failure is swallowed: the job goes on without the id
ProcessUploadMidiSwallows(w) ==
    /\ wpc[w] = "upload_midi"
    /\ \E outcome \in UploadOutcomes :
        IF outcome = "ok"
        THEN /\ files' = files \cup {NewFileId(wtask[w], "midi")}
             /\ wmidi' = [wmidi EXCEPT ![w] = NewFileId(wtask[w], "midi")]
             /\ Proceed(w, "upload_midi", "complete")
             /\ UNCHANGED <<jobs, failures, wxml>>
        ELSE /\ wpc' = [wpc EXCEPT ![w] = "complete"]
             /\ UNCHANGED <<jobs, failures, files, wtask, wdone, wxml, wmidi>>
    /\ UNCHANGED <<queue, running, started, epc, eid, rpc, rarg, retries, spc,
                   sleft>>

\* midi_file_id = asyncio.run(upload_file(converted_midi, ...))
ProcessUploadMidi(w) ==
    /\ wpc[w] = "upload_midi"
    /\ \E outcome \in Failing(UploadOutcomes, "ok") :
        IF outcome = "ok"
        THEN /\ files' = files \cup {NewFileId(wtask[w], "midi")}
             /\ wmidi' = [wmidi EXCEPT ![w] = NewFileId(wtask[w], "midi")]
             /\ Proceed(w, "upload_midi", "complete")
             /\ UNCHANGED <<jobs, failures, wxml>>
        ELSE /\ MarkFailed(w, "Unexpected error: storage")
             /\ UNCHANGED files
    /\ UNCHANGED <<queue, running, started, epc, eid, rpc, rarg, retries, spc,
                   sleft>>

\* _update_job(status="completed", progress=100, output ids, completed_at)
ProcessMarkCompleted(w) ==
    /\ wpc[w] = "complete"
    /\ jobs' = UpdateJobs(wtask[w], "completed", 100, None, wxml[w], wmidi[w], TRUE)
    /\ Return(w)
    /\ UNCHANGED <<queue, running, started, files, epc, eid, rpc, rarg, retries,
                   failures, spc, sleft>>

ProcessConversion(w) ==
    \/ ProcessLookup(w)
    \/ ProcessMarkInProgress(w)
    \/ ProcessProgress30(w)
    \/ ProcessConvert(w)
    \/ ProcessValidate(w)
    \/ ProcessGenerateMidi(w)
    \/ ProcessUploadMusicxml(w)
    \/ ProcessUploadMidi(w)
    \/ ProcessMarkCompleted(w)

WorkerLoop(w) == WorkerLoopCond(w) \/ WorkerGet(w) \/ ProcessConversion(w)

(* ------------------------- values returned to clients ------------------ *)
\* what get_job_status hands the enqueuing client
StatusOf(id) ==
    IF id \in DOMAIN jobs
    THEN [op |-> "get_job_status", id |-> id, status |-> jobs[id].status,
          progress |-> jobs[id].progress]
    ELSE [op |-> "get_job_status", id |-> id, status |-> None,
          progress |-> NoneInt]

\* retry_conversion's return value for a call that is refused
RetryRefused(id) == [op |-> "retry_conversion", id |-> id, value |-> FALSE]
RetryAccepted(id) == [op |-> "retry_conversion", id |-> id, value |-> TRUE]
RetryRefuses(id) == id \notin DOMAIN jobs \/ jobs[id].status # "failed"

\* the step A, with the value it returns to its caller kept in ret
Returning(A, value) ==
    A /\ ret' = value /\ UNCHANGED <<uvars, validation, cvars, pvars, fvars>>

\* no upload request is being served
NoUpload == up = [pc |-> "idle"] /\ calls = <<>> /\ response = [status_code |-> 0]

\* validate_musicxml has not been called
NoValidation == validation = [pc |-> "idle"]

\* convert_musicxml is not being called directly
NoConversion == conv = [pc |-> "idle"]

\* no pieces request is being served and the collection is empty
NoPieces ==
    /\ pieces = <<>>
    /\ clock = 0
    /\ uuids = 0
    /\ bulk = [pc |-> "idle"]
    /\ reply = [op |-> "none", status_code |-> 0]

\* no function of the parser is being applied on its own
NoSanitizing == san = [pc |-> "idle"]
NoDetailsCall == det = [pc |-> "idle"]
NoParserCall == NoSanitizing /\ NoDetailsCall
NoPoll == live = [pc |-> "idle"]

Init ==
    /\ QInit /\ NoUpload /\ NoValidation /\ NoConversion /\ NoPieces
    /\ NoParserCall /\ NoPoll

Next ==
    \/ Returning(Start, NoRet)
    \/ Returning(StopFlag, NoRet)
    \/ Returning(StopPut, NoRet)
    \/ Returning(QueueConversionStore, NoRet)
    \/ Returning(QueueConversionPut, [op |-> "queue_conversion", id |-> eid])
    \/ Returning(GetJobStatus, StatusOf(eid))
    \/ \E r \in RetryCallers, id \in RetryIds :
        Returning(RetryConversionCheck(r, id),
                  IF RetryRefuses(id) THEN RetryRefused(id) ELSE NoRet)
    \/ \E r \in RetryCallers :
        Returning(RetryConversionPut(r), RetryAccepted(rarg[r]))
    \/ \E w \in Workers : Returning(WorkerLoop(w), NoRet)

Spec == Init /\ [][Next]_vars

\* the same program with no record kept of the returned values
QuietNext ==
    \/ Returning(Start \/ StopFlag \/ StopPut, NoRet)
    \/ Returning(QueueConversionStore \/ QueueConversionPut \/ GetJobStatus, NoRet)
    \/ \E r \in RetryCallers, id \in RetryIds :
        Returning(RetryConversionCheck(r, id), NoRet)
    \/ \E r \in RetryCallers : Returning(RetryConversionPut(r), NoRet)
    \/ \E w \in Workers : Returning(WorkerLoop(w), NoRet)

\* scheduling: a thread that can take a step eventually takes one; no client
\* is obliged to make a new call
Fairness ==
    /\ \A w \in Workers : WF_vars(Returning(WorkerLoop(w), NoRet))
    /\ WF_vars(Returning(QueueConversionPut, NoRet))
    /\ \A r \in RetryCallers : WF_vars(Returning(RetryConversionPut(r), NoRet))
    /\ WF_vars(Returning(StopPut, NoRet))

FairSpec == Init /\ [][QuietNext]_vars /\ Fairness

(* ---------------------------- shutdown_event --------------------------- *)
\* queue.stop() has returned; await close_db_connection():
\* mongodb_client.close()
CloseDbConnection ==
    /\ spc = "done"
    /\ spc' = "closed"
    /\ UNCHANGED <<jobs, queue, running, started, files, wpc, wtask, wdone, wxml,
                   wmidi, epc, eid, rpc, rarg, retries, failures, sleft>>

\* the queue in an application that shuts down: stop() is followed by the
\* closing of the database connection
ShutdownNext ==
    \/ Next
    \/ Returning(CloseDbConnection, NoRet)

ShutdownSpec == Init /\ [][ShutdownNext]_vars

(* ======================= claims: conversion queue ====================== *)
Pending(j) == j \in DOMAIN jobs /\ jobs[j].status \in {"queued", "in_progress"}
Settled(j) == j \in DOMAIN jobs /\ jobs[j].status \in {"completed", "failed"}
StopCalled == spc # "idle"

\* steps, recognised by what they do to the threads' positions
WorkerPicks(j) ==
    \E w \in Workers : wtask[w] = j /\ wpc[w] = "u10" /\ wpc'[w] = "u30"
WorkerHolds(j) ==
    \E w \in Workers : wtask[w] = j /\ wpc[w] \notin {"loop", "get", "exited"}
RetryAccepts(j) ==
    \E r \in RetryCallers : rpc[r] = "idle" /\ rpc'[r] = "put" /\ rarg'[r] = j
Creates(j) == epc = "idle" /\ epc' = "put" /\ eid' = j

StatusStep(j) ==
    /\ (j \notin DOMAIN jobs /\ j \in DOMAIN jobs')
            => (jobs'[j].status = "queued" /\ Creates(j))
    /\ j \in DOMAIN jobs =>
        /\ j \in DOMAIN jobs'
        /\ LET a == jobs[j].status
               b == jobs'[j].status
           IN  \/ a = b
               \/ a = "queued" /\ b = "in_progress" /\ WorkerPicks(j)
               \/ a = "in_progress" /\ b \in {"completed", "failed"} /\ WorkerHolds(j)
               \/ a = "failed" /\ b = "queued" /\ RetryAccepts(j)

\* C1: a job is created queued; its status changes only queued -> in_progress
\* (by a worker picking it up), in_progress -> completed or failed, and
\* failed -> queued (by an accepted retry_conversion); completed never changes.
C1_StatusTransitions == [][\A j \in JobIds : StatusStep(j)]_vars

\* a job that failed, was retried and then completed
C1_Witness ==
    \E j \in DOMAIN jobs :
        jobs[j].status = "completed" /\ failures[j] > 0 /\ retries[j] > 0

CompletedJob(j) ==
    jobs[j].status = "completed" =>
        /\ jobs[j].progress = 100
        /\ jobs[j].output_musicxml_file_id # NoneFile
        /\ jobs[j].output_midi_file_id # NoneFile
        /\ jobs[j].completed_at # NoneInt
        /\ jobs[j].output_musicxml_file_id \in files
        /\ jobs[j].output_midi_file_id \in files
Completes(j) ==
    j \in DOMAIN jobs /\ jobs[j].status # "completed" /\ jobs'[j].status = "completed"

\* C2: a completed job has progress 100, both output file ids (naming stored
\* blobs) and completed_at; and the step that completes a job is taken by a
\* worker whose attempt succeeded at convert, validate, MIDI and both uploads.
C2_CompletedJob ==
    /\ [](\A j \in DOMAIN jobs : CompletedJob(j))
    /\ [][\A j \in JobIds : Completes(j) =>
            \E w \in Workers : wtask[w] = j /\ wdone[w] = PipelineSteps]_vars

C2_Witness == \E j \in DOMAIN jobs : jobs[j].status = "completed"

\* C3: the status the enqueuing client reads right after queue_conversion
\* returned is queued with progress 0.
C3_QueuedRightAfterEnqueue ==
    ret.op = "get_job_status" => (ret.status = "queued" /\ ret.progress = 0)

UnknownOrNotFailed(id) ==
    \/ id \notin DOMAIN jobs
    \/ jobs[id].status \in {"queued", "in_progress", "completed"}

\* C4: retry_conversion for an unknown id or a queued, in_progress or
\* completed job is never accepted; the refused call returns false and leaves
\* every job (updated_at included) and the work queue unchanged.
C4_RefusedRetry ==
    [][\A id \in RetryIds :
        /\ UnknownOrNotFailed(id) => ~RetryAccepts(id)
        /\ ret' = RetryRefused(id) =>
            (UnknownOrNotFailed(id) /\ jobs' = jobs /\ queue' = queue)]_vars

\* a retry of a job a worker is processing has just been refused
C4_Witness ==
    \E id \in DOMAIN jobs : ret = RetryRefused(id) /\ jobs[id].status = "in_progress"

\* C5: an accepted retry finds the job failed and sets status queued,
\* progress 0, error_message absent, stamping updated_at; its return of true
\* comes with exactly one work item pushed for the job; each failure of a job
\* is retried at most once, so of two concurrent retries one is refused.
C5_AcceptedRetry ==
    /\ [][\A id \in JobIds : RetryAccepts(id) =>
            /\ id \in DOMAIN jobs
            /\ jobs[id].status = "failed"
            /\ jobs'[id] = [jobs[id] EXCEPT !.status = "queued", !.progress = 0,
                                            !.error_message = None,
                                            !.updated_at = jobs'[id].updated_at]
            /\ jobs'[id].updated_at # jobs[id].updated_at
            /\ queue' = queue]_vars
    /\ [][\A id \in JobIds : ret' = RetryAccepted(id) => queue' = Append(queue, id)]_vars
    /\ [](\A j \in JobIds :
            /\ retries[j] <= failures[j]
            /\ Cardinality({r \in RetryCallers : rpc[r] = "put" /\ rarg[r] = j}) <= 1)

\* one retry of a job is between its reset and its put when another retry of
\* the same job is refused
C5_Witness ==
    \E j \in DOMAIN jobs :
        /\ ret = RetryRefused(j)
        /\ \E r \in RetryCallers : rpc[r] = "put" /\ rarg[r] = j

\* C6: until stop() is called no worker thread has terminated, whatever
\* failed, and every job that is queued or in progress on a started queue is
\* eventually completed or failed (or stop() is called).
C6_WorkersSurviveFailures ==
    /\ [](\A w \in Workers : wpc[w] = "exited" => StopCalled)
    /\ \A j \in JobIds : (started /\ Pending(j)) ~> (Settled(j) \/ StopCalled)

\* a job failed, was retried and was completed by a worker, with no stop()
C6_Witness ==
    /\ ~StopCalled
    /\ \E j \in DOMAIN jobs : jobs[j].status = "completed" /\ failures[j] > 0

\* C7: once stop() has been called every worker thread eventually terminates.
C7_StopTerminatesWorkers == StopCalled ~> (\A w \in Workers : wpc[w] = "exited")

\* stop() has been called, one worker has left and another is inside a job
C7_Witness ==
    /\ StopCalled
    /\ \E w \in Workers : wpc[w] = "exited"
    /\ \E w \in Workers : wpc[w] = "convert"

\* the positions of a worker thread inside _process_conversion
Processing == {"lookup", "u10", "u30", "convert", "validate", "midi",
               "upload_musicxml", "upload_midi", "complete"}
Holders(j) == {w \in Workers : wtask[w] = j /\ wpc[w] \in Processing}
QueuedItems(j) == {i \in 1..Len(queue) : queue[i] = j}
\* the clients between their write to the registry and their put
Putting(j) ==
    {r \in RetryCallers : rpc[r] = "put" /\ rarg[r] = j}
    \cup (IF epc = "put" /\ eid = j THEN {"e"} ELSE {})

\* the work items of job j that are in the work queue, in a worker's hands or
\* about to be put
Outstanding(j) ==
    Cardinality(QueuedItems(j)) + Cardinality(Holders(j)) + Cardinality(Putting(j))

\* C26: at shutdown the queue is stopped before the database connection is
\* closed, and once the connection is closed no worker is processing a job
\* or uploading to the blob storage
C26_NoWorkAfterClose ==
    spc = "closed" =>
        /\ ~running
        /\ \A w \in Workers : wpc[w] \notin Processing

\* C27: after stop() has cleared the running flag no worker moves a job from
\* queued to in_progress and a queued job is given no other status: a job
\* that is queued then stays queued
C27_QueuedStaysQueuedAfterStop ==
    [][\A j \in DOMAIN jobs :
        StopCalled /\ jobs[j].status = "queued" => jobs'[j].status = "queued"]_vars

\* C28: at most one work item per job is outstanding at any time, so no job
\* is in the hands of two workers at once; and a job that a worker marked
\* completed or failed is written again only by an accepted retry
C28_OneWorkItemPerJob ==
    /\ [](\A j \in JobIds : Outstanding(j) <= 1)
    /\ [][\A j \in DOMAIN jobs :
            Settled(j) /\ jobs'[j] # jobs[j] => RetryAccepts(j)]_vars

\* a retried job is in a worker's hands while the other worker processes the
\* other job
C28_Witness ==
    \E j \in DOMAIN jobs, k \in DOMAIN jobs :
        /\ j # k
        /\ retries[j] = 1 /\ Holders(j) # {} /\ jobs[j].status = "in_progress"
        /\ Holders(k) # {} /\ jobs[k].status = "in_progress"

(* ===================== Part II: upload_file ============================ *)
(* ------------------------------ settings ------------------------------- *)
\* Settings.max_upload_size
max_upload_size == 50 * 1024 * 1024

\* Settings.allowed_file_types
allowed_file_types ==
    {"application/pdf", "application/vnd.recordare.musicxml+xml",
     "application/vnd.recordare.musicxml", "application/x-compressed",
     "audio/midi", "audio/x-midi"}

\* settings.allowed_file_extensions: the extensions matching the MIME
\* allow-list.  File names are sequences of characters.
allowed_file_extensions ==
    {<<".", "p", "d", "f">>, <<".", "x", "m", "l">>, <<".", "m", "x", "l">>,
     <<".", "m", "u", "s", "i", "c", "x", "m", "l">>, <<".", "m", "i", "d">>,
     <<".", "m", "i", "d", "i">>}

(* ------------------------- str and Path operations --------------------- *)
\* str.lower, on the letters the file names below are made of
LowerChar(c) ==
    CASE c = "S" -> "s" [] c = "X" -> "x" [] c = "M" -> "m" [] c = "L" -> "l"
      [] c = "T" -> "t" [] c = "R" -> "r" [] c = "U" -> "u" [] c = "E" -> "e"
      [] c = "A" -> "a" [] c = "P" -> "p" [] OTHER -> c
lower(s) == [i \in 1..Len(s) |-> LowerChar(s[i])]

\* str.rfind, 1-based; 0 when c does not occur
rfind(s, c) ==
    LET at == {i \in 1..Len(s) : s[i] = c}
    IN  IF at = {} THEN 0 ELSE CHOOSE i \in at : \A k \in at : k <= i

\* Path(s).name: the last component of the path
PathName(s) == SubSeq(s, rfind(s, "/") + 1, Len(s))

\* Path(s).suffix: from the last dot of the name on, unless the name has no
\* dot, starts with its only dot or ends with a dot
PathSuffix(s) ==
    LET name == PathName(s)
        i == rfind(name, ".")
    IN  IF 1 < i /\ i < Len(name) THEN SubSeq(name, i, Len(name)) ELSE <<>>

\* s.rsplit(".", 1)[0]
RsplitHead(s) == IF rfind(s, ".") = 0 THEN s ELSE SubSeq(s, 1, rfind(s, ".") - 1)

\* s.endswith(t)
endswith(s, t) == Len(t) <= Len(s) /\ SubSeq(s, Len(s) - Len(t) + 1, Len(s)) = t

\* "phrase in message", a message being the sequence of its phrases
Contains(message, phrase) == \E i \in 1..Len(message) : message[i] = phrase

\* Python truthiness of an optional str or bytes value
Truthy(v) == v # None /\ v # ""

(* ------------------------------- inputs -------------------------------- *)
UNTITLED == <<"u", "n", "t", "i", "t", "l", "e", "d", ".", "x", "m", "l">>

\* file.filename as sent by the client; <<>> is an absent or empty name
Filenames ==
    {<<>>, <<"s", ".", "x", "m", "l">>, <<"S", ".", "X", "M", "L">>,
     <<"s", ".", "m", "x", "l">>, <<"s", ".", "t", "x", "t">>, <<"s">>,
     <<".", "x", "m", "l">>, <<"s", ".", "x", "m", "l", "/", "t">>}

\* file.content_type as sent by the client
ContentTypes == {None, "", "application/vnd.recordare.musicxml+xml", "text/xml"}

\* len(content)
ContentLengths == {1, max_upload_size, max_upload_size + 1}

(* -------------------- what the called services return ------------------ *)
\* texts of the exceptions the libraries raise inside the parser
Causes == {"", "syntax error"}

\* detect_notation_type
detect_notation_type(has_tab, has_staff) ==
    IF has_tab /\ has_staff THEN "both"
    ELSE IF has_tab THEN "tab"
    ELSE "staff"

NoMetadata == [present |-> FALSE]
Metadata(has_tab, has_staff) ==
    [present |-> TRUE, has_tablature |-> has_tab, has_staff_notation |-> has_staff,
     notation_type |-> detect_notation_type(has_tab, has_staff)]

\* parser.parse_musicxml(content, filename): (metadata, cleaned bytes), or
\* MusicXMLParseError with the cause wrapped in its message
parse_musicxml(filename) ==
    {[raised |-> None, metadata |-> Metadata(t, f), cleaned_xml |-> "cleaned"] :
        t \in BOOLEAN, f \in BOOLEAN}
    \cup {[raised |-> "MusicXMLParseError",
           message |-> "Failed to parse MusicXML: " \o c] : c \in Causes}
    \cup IF endswith(lower(filename), <<".", "m", "x", "l">>)
         THEN {[raised |-> "MusicXMLParseError",
                message |-> "Failed to extract MXL: " \o c] : c \in Causes}
         ELSE {}

\* parser.generate_midi(cleaned_xml, "cleaned.xml")
generate_midi ==
    {[raised |-> None, midi_content |-> "midi"]}
    \cup {[raised |-> "MusicXMLParseError",
           message |-> "Failed to generate MIDI: " \o c] : c \in Causes}

(* ----------------------------- converter ------------------------------- *)
\* what a conversion depends on outside its arguments: the temporary
\* directory can be written, the input parses as MusicXML, mscore-headless is
\* on the path, and what the tool does when it is run
ToolOutcomes ==
    {"ok", "TimeoutExpired", "CalledProcessError", "no_output", "empty_output"}
Environments ==
    [writable : BOOLEAN, parses : BOOLEAN, installed : BOOLEAN, tool : ToolOutcomes]

\* a step with an effect outside the process, and whether it raised
Effect(fn, raised) == [fn |-> fn, raised |-> raised]

Returned(value, effects) ==
    [raised |-> None, message |-> <<>>, converted |-> value, effects |-> effects]
Raised(exception, message, effects) ==
    [raised |-> exception, message |-> message, converted |-> None,
     effects |-> effects]

\* run_musescore_conversion(input_path, output_path, timeout)
run_musescore_conversion(env) ==
    IF ~env.installed
    THEN Raised("FileNotFoundError", <<"mscore-headless not found">>,
                <<Effect("shutil.which", TRUE)>>)
    ELSE IF env.tool = "TimeoutExpired"
    THEN Raised("TimeoutExpired", <<"Command timed out after 30 seconds">>,
                <<Effect("shutil.which", FALSE), Effect("subprocess.run", TRUE)>>)
    ELSE IF env.tool = "CalledProcessError"
    THEN Raised("ConversionError",
                <<"MuseScore conversion failed (exit code 1): ", "stderr">>,
                <<Effect("shutil.which", FALSE), Effect("subprocess.run", TRUE)>>)
    ELSE Returned(env.tool,
                  <<Effect("shutil.which", FALSE), Effect("subprocess.run", FALSE)>>)

\* _convert_staff_to_tab and _convert_tab_to_staff, which differ in the label
\* of their last except clause only
ConvertPath(label, env) ==
    IF ~env.parses
    THEN Raised("ConversionError", <<"Invalid MusicXML input: ", "parse failure">>,
                <<Effect("converter.parse", TRUE)>>)
    ELSE LET run == run_musescore_conversion(env)
             effects == <<Effect("converter.parse", FALSE)>> \o run.effects
         IN  IF run.raised = "FileNotFoundError"
             THEN Raised("ConversionError",
                         <<"MuseScore CLI not available", ": ">> \o run.message
                             \o <<". Run in Docker container or install MuseScore">>,
                         effects)
             ELSE IF run.raised = "TimeoutExpired"
             THEN Raised("ConversionError", <<"Conversion timed out after 30s">>,
                         effects)
             ELSE IF run.raised # None
             THEN Raised("ConversionError", <<label>> \o run.message, effects)
             ELSE IF run.converted = "no_output"
             THEN Raised("ConversionError",
                         <<label, "MuseScore did not generate output file">>, effects)
             ELSE IF run.converted = "empty_output"
             THEN Raised("ConversionError",
                         <<label, "MuseScore generated empty output">>, effects)
             ELSE Returned("converted", effects)

convert_staff_to_tab(env) == ConvertPath("Staff -> TAB conversion failed: ", env)
convert_tab_to_staff(env) == ConvertPath("TAB -> Staff conversion failed: ", env)

\* the last except clause replaces the message instead of wrapping it
convert_musicxml_drops_cause(env, from_notation, to_notation) ==
    IF from_notation = to_notation
    THEN Raised("ValueError", <<"Cannot convert (same type)">>, <<>>)
    ELSE IF ~env.writable
    THEN Raised("ConversionError", <<"Conversion failed">>,
                <<Effect("input_path.write_bytes", TRUE)>>)
    ELSE LET inner ==
                 IF from_notation = "staff" /\ to_notation = "tab"
                 THEN convert_staff_to_tab(env)
                 ELSE IF from_notation = "tab" /\ to_notation = "staff"
                 THEN convert_tab_to_staff(env)
                 ELSE Raised("ValueError", <<"Unsupported conversion">>, <<>>)
             effects == <<Effect("input_path.write_bytes", FALSE)>> \o inner.effects
         IN  IF inner.raised = None
             THEN Returned(inner.converted, effects)
             ELSE Raised("ConversionError", <<"Conversion failed">>, effects)

\* the same-notation test made inside the try block, after the input is written
convert_musicxml_checks_late(env, from_notation, to_notation) ==
    IF ~env.writable
    THEN Raised("ConversionError", <<"Conversion failed: ", "OSError">>,
                <<Effect("input_path.write_bytes", TRUE)>>)
    ELSE LET inner ==
                 IF from_notation = to_notation
                 THEN Raised("ValueError", <<"Cannot convert (same type)">>, <<>>)
                 ELSE IF from_notation = "staff" /\ to_notation = "tab"
                 THEN convert_staff_to_tab(env)
                 ELSE IF from_notation = "tab" /\ to_notation = "staff"
                 THEN convert_tab_to_staff(env)
                 ELSE Raised("ValueError", <<"Unsupported conversion">>, <<>>)
             effects == <<Effect("input_path.write_bytes", FALSE)>> \o inner.effects
         IN  IF inner.raised = None
             THEN Returned(inner.converted, effects)
             ELSE Raised("ConversionError",
                         <<"Conversion failed: ">> \o inner.message, effects)

\* converter.convert_musicxml(input_musicxml, from_notation, to_notation)
convert_musicxml(env, from_notation, to_notation) ==
    IF from_notation = to_notation
    THEN Raised("ValueError", <<"Cannot convert (same type)">>, <<>>)
    ELSE IF ~env.writable
    THEN Raised("ConversionError", <<"Conversion failed: ", "OSError">>,
                <<Effect("input_path.write_bytes", TRUE)>>)
    ELSE LET inner ==
                 IF from_notation = "staff" /\ to_notation = "tab"
                 THEN convert_staff_to_tab(env)
                 ELSE IF from_notation = "tab" /\ to_notation = "staff"
                 THEN convert_tab_to_staff(env)
                 ELSE Raised("ValueError", <<"Unsupported conversion">>, <<>>)
             effects == <<Effect("input_path.write_bytes", FALSE)>> \o inner.effects
         IN  IF inner.raised = None
             THEN Returned(inner.converted, effects)
             ELSE IF inner.raised = "TimeoutExpired"
             THEN Raised("ConversionError", <<"Conversion timed out after 30s">>,
                         effects)
             ELSE Raised("ConversionError",
                         <<"Conversion failed: ">> \o inner.message, effects)

\* storage.upload_file: the write succeeds or the storage layer raises
StorageOutcomes == {"ok", "Exception"}

(* ------------------------------ the request ---------------------------- *)
NoResponse == [status_code |-> 0]
HTTPException(code, detail) == [status_code |-> code, detail |-> detail]

NewRequest(len, name, ctype) ==
    [pc |-> "check_size", content_len |-> len, filename |-> name,
     content_type |-> ctype, file_ext |-> <<>>,
     original_file_id |-> NoneFile, musicxml_file_id |-> NoneFile,
     midi_file_id |-> NoneFile, parse_status |-> None, parse_error |-> None,
     midi_status |-> None, midi_error |-> None, metadata |-> NoMetadata,
     cleaned_xml |-> None, midi_content |-> None,
     conversion_checks |-> <<>>, preview_assets |-> <<>>]

UploadInit ==
    /\ QInit
    /\ up \in {NewRequest(len, name, ctype) :
                len \in ContentLengths, name \in Filenames, ctype \in ContentTypes}
    /\ calls = <<>>
    /\ response = NoResponse
    /\ NoValidation /\ NoConversion /\ NoPieces /\ NoParserCall /\ NoPoll

\* a call to a service, recorded with whether it raised
Called(fn, what, raised) == [fn |-> fn, what |-> what, raised |-> raised]
Call(fn, what, raised) == calls' = Append(calls, Called(fn, what, raised))

\* raise HTTPException(...): the request ends with that status
Raise(code, detail) ==
    /\ response' = HTTPException(code, detail)
    /\ up' = [up EXCEPT !.pc = "done"]

Check(status, note) == [status |-> status, note |-> note]

(* ------------------------- upload_file, step by step ------------------- *)
\* content = await file.read(); the size check; filename = file.filename or ...
UploadCheckSize ==
    /\ up.pc = "check_size"
    /\ IF up.content_len > max_upload_size
       THEN Raise(413, "File too large")
       ELSE /\ up' = [up EXCEPT !.pc = "check_extension",
                                !.filename = IF up.filename # <<>> THEN up.filename
                                             ELSE UNTITLED]
            /\ UNCHANGED response
    /\ UNCHANGED <<calls, files, urest>>

\* the extension check on Path(filename).suffix, not lower-cased
UploadCheckExtensionNoLower ==
    /\ up.pc = "check_extension"
    /\ LET file_ext == PathSuffix(up.filename)
       IN  IF file_ext \notin allowed_file_extensions
           THEN Raise(415, "Unsupported file extension")
           ELSE /\ up' = [up EXCEPT !.pc = "check_content_type",
                                    !.file_ext = file_ext]
                /\ UNCHANGED response
    /\ UNCHANGED <<calls, files, urest>>

\* file_ext = Path(filename).suffix.lower(); the extension check
UploadCheckExtension ==
    /\ up.pc = "check_extension"
    /\ LET file_ext == lower(PathSuffix(up.filename))
       IN  IF file_ext \notin allowed_file_extensions
           THEN Raise(415, "Unsupported file extension")
           ELSE /\ up' = [up EXCEPT !.pc = "check_content_type",
                                    !.file_ext = file_ext]
                /\ UNCHANGED response
    /\ UNCHANGED <<calls, files, urest>>

\* the content-type check; content_type = file.content_type or ...
UploadCheckContentType ==
    /\ up.pc = "check_content_type"
    /\ IF Truthy(up.content_type) /\ up.content_type \notin allowed_file_types
       THEN Raise(415, "Unsupported file type")
       ELSE /\ up' = [up EXCEPT !.pc = "store_original",
                                !.content_type = IF Truthy(up.content_type)
                                                 THEN up.content_type
                                                 ELSE "application/octet-stream"]
            /\ UNCHANGED response
    /\ UNCHANGED <<calls, files, urest>>

\* original_file_id = await storage.upload_file(content, ...), then the
\* initial values of conversion_checks, preview_assets and the status locals
UploadStoreOriginal ==
    /\ up.pc = "store_original"
    /\ \E outcome \in StorageOutcomes :
        IF outcome = "ok"
        THEN /\ Call("storage.upload_file", "original", FALSE)
             /\ files' = files \cup {NewFileId(NoneId, "original")}
             /\ up' = [up EXCEPT
                    !.pc = "parse",
                    !.original_file_id = NewFileId(NoneId, "original"),
                    !.conversion_checks =
                        [midi |-> Check("pending", ""),
                         mxl_extract |->
                            IF up.file_ext = <<".", "m", "x", "l">>
                            THEN Check("pending", "")
                            ELSE Check("skipped", "Source not compressed (.mxl)"),
                         staff_to_tab |-> Check("pending", ""),
                         tab_to_staff |-> Check("pending", ""),
                         pdf_to_mxl |-> Check("unavailable", ""),
                         image_to_musicxml |-> Check("unavailable", "")],
                    !.preview_assets =
                        [musicxml_file_id |-> NoneFile, midi_file_id |-> NoneFile,
                         tab_musicxml_file_id |-> NoneFile,
                         staff_musicxml_file_id |-> NoneFile],
                    !.parse_status = "pending",
                    !.midi_status = "pending"]
             /\ UNCHANGED response
        ELSE /\ Call("storage.upload_file", "original", TRUE)
             /\ Raise(500, "Original file storage failed")
             /\ UNCHANGED files
    /\ UNCHANGED urest

\* parse_musicxml called outside any try: its exception ends the request
UploadParseRaises ==
    /\ up.pc = "parse"
    /\ \E result \in parse_musicxml(up.filename) :
        /\ Call("parser.parse_musicxml", "content", result.raised # None)
        /\ IF result.raised = None
           THEN /\ up' = [up EXCEPT
                       !.pc = "store_cleaned",
                       !.metadata = result.metadata,
                       !.cleaned_xml = result.cleaned_xml,
                       !.parse_status = "success"]
                /\ UNCHANGED response
           ELSE Raise(500, "Internal Server Error")
    /\ UNCHANGED <<files, urest>>

\* metadata, cleaned_xml = parser.parse_musicxml(content, filename) and its
\* except clauses
UploadParse ==
    /\ up.pc = "parse"
    /\ \E result \in parse_musicxml(up.filename) :
        LET mxl == up.file_ext = <<".", "m", "x", "l">>
        IN  /\ Call("parser.parse_musicxml", "content", result.raised # None)
            /\ IF result.raised = None
               THEN up' = [up EXCEPT
                       !.pc = IF Truthy(result.cleaned_xml) THEN "store_cleaned"
                              ELSE "skip_midi",
                       !.metadata = result.metadata,
                       !.cleaned_xml = result.cleaned_xml,
                       !.parse_status = "success",
                       !.conversion_checks.mxl_extract =
                           IF mxl THEN Check("success", "") ELSE @]
               ELSE up' = [up EXCEPT
                       !.pc = "skip_midi",
                       !.parse_status = "failed",
                       !.parse_error = result.message,
                       !.conversion_checks.mxl_extract =
                           IF mxl THEN Check("failed", result.message) ELSE @]
    /\ UNCHANGED <<response, files, urest>>

\* musicxml_file_id = await storage.upload_file(cleaned_xml, ...)
UploadStoreCleaned ==
    /\ up.pc = "store_cleaned"
    /\ \E outcome \in StorageOutcomes :
        IF outcome = "ok"
        THEN /\ Call("storage.upload_file", "cleaned", FALSE)
             /\ files' = files \cup {NewFileId(NoneId, "cleaned")}
             /\ up' = [up EXCEPT
                    !.pc = "generate_midi",
                    !.musicxml_file_id = NewFileId(NoneId, "cleaned"),
                    !.preview_assets.musicxml_file_id = NewFileId(NoneId, "cleaned")]
             /\ UNCHANGED response
        ELSE /\ Call("storage.upload_file", "cleaned", TRUE)
             /\ Raise(500, "Storage failed")
             /\ UNCHANGED files
    /\ UNCHANGED urest

\* midi_content = parser.generate_midi(cleaned_xml, "cleaned.xml") and its
\* except clauses; midi_file_id = None when there is nothing to store
UploadGenerateMidi ==
    /\ up.pc = "generate_midi"
    /\ \E result \in generate_midi :
        /\ Call("parser.generate_midi", "cleaned", result.raised # None)
        /\ IF result.raised = None
           THEN up' = [up EXCEPT
                   !.pc = IF Truthy(result.midi_content) THEN "store_midi"
                          ELSE "staff_to_tab",
                   !.midi_status = "success",
                   !.midi_content = result.midi_content,
                   !.conversion_checks.midi = Check("success", "")]
           ELSE up' = [up EXCEPT
                   !.pc = "staff_to_tab",
                   !.midi_status = "failed",
                   !.midi_error = result.message,
                   !.conversion_checks.midi = Check("failed", result.message)]
    /\ UNCHANGED <<response, files, urest>>

\* midi_file_id = await storage.upload_file(midi_content, ...)
UploadStoreMidi ==
    /\ up.pc = "store_midi"
    /\ \E outcome \in StorageOutcomes :
        IF outcome = "ok"
        THEN /\ Call("storage.upload_file", "midi", FALSE)
             /\ files' = files \cup {NewFileId(NoneId, "midi")}
             /\ up' = [up EXCEPT
                    !.pc = "staff_to_tab",
                    !.midi_file_id = NewFileId(NoneId, "midi"),
                    !.preview_assets.midi_file_id = NewFileId(NoneId, "midi")]
             /\ UNCHANGED response
        ELSE /\ Call("storage.upload_file", "midi", TRUE)
             /\ Raise(500, "MIDI storage failed")
             /\ UNCHANGED files
    /\ UNCHANGED urest

\* MIDI generation attempted although there is no cleaned MusicXML
UploadSkipMidiAttempts ==
    /\ up.pc = "skip_midi"
    /\ up' = [up EXCEPT !.pc = "generate_midi"]
    /\ UNCHANGED <<response, calls, files, urest>>

\* the else branch of "if parse_status == 'success' and cleaned_xml"
UploadSkipMidi ==
    /\ up.pc = "skip_midi"
    /\ up' = [up EXCEPT
            !.pc = "staff_to_tab",
            !.midi_status = "skipped",
            !.midi_error = "MIDI generation skipped due to parse failure",
            !.midi_file_id = NoneFile,
            !.conversion_checks.midi = Check("skipped", "Parse failed")]
    /\ UNCHANGED <<response, calls, files, urest>>

\* has_staff / has_tab as upload_file reads them from the metadata
has_staff ==
    IF up.metadata.present THEN up.metadata.has_staff_notation ELSE TRUE
has_tab ==
    IF up.metadata.present THEN up.metadata.has_tablature ELSE FALSE

\* _attempt_conversion(check_key, from_notation, to_notation, ...): the id of
\* the stored preview goes to preview_assets[slot]; every failure, the
\* storage failure included, is recorded in conversion_checks[check_key]
AttemptConversion(check_key, from_notation, to_notation, slot, next) ==
    IF ~Truthy(up.cleaned_xml)
    THEN /\ up' = [up EXCEPT
                !.pc = next,
                !.conversion_checks[check_key] =
                    Check("skipped", "No cleaned MusicXML available")]
         /\ UNCHANGED <<calls, files>>
    ELSE \E env \in Environments :
        LET result == convert_musicxml(env, from_notation, to_notation)
            steps == [i \in 1..Len(result.effects) |->
                        Called(result.effects[i].fn, check_key,
                               result.effects[i].raised)]
        IN
        IF result.raised = None
        THEN \E outcome \in StorageOutcomes :
             /\ calls' = calls \o steps \o
                    <<Called("converter.convert_musicxml", check_key, FALSE),
                      Called("storage.upload_file", "converted", outcome # "ok")>>
             /\ IF outcome = "ok"
                THEN /\ files' = files \cup {NewFileId(NoneId, "converted")}
                     /\ up' = [up EXCEPT
                            !.pc = next,
                            !.conversion_checks[check_key] = Check("success", ""),
                            !.preview_assets[slot] = NewFileId(NoneId, "converted")]
                ELSE /\ up' = [up EXCEPT
                            !.pc = next,
                            !.conversion_checks[check_key] =
                                Check("failed", "Storage failed")]
                     /\ UNCHANGED files
        ELSE /\ calls' = calls \o steps \o
                    <<Called("converter.convert_musicxml", check_key, TRUE)>>
             /\ up' = [up EXCEPT
                    !.pc = next,
                    !.conversion_checks[check_key] =
                        Check(IF /\ result.raised = "ConversionError"
                                 /\ Contains(result.message,
                                             "MuseScore CLI not available")
                              THEN "unavailable" ELSE "failed",
                              result.message)]
             /\ UNCHANGED files

\* the staff -> tab conversion attempted whether or not the source has staff
\* notation: a mutation used to test the claims
UploadStaffToTabWhateverSource ==
    /\ up.pc = "staff_to_tab"
    /\ IF up.parse_status # "success"
       THEN /\ up' = [up EXCEPT
                    !.pc = "respond",
                    !.conversion_checks.staff_to_tab = Check("skipped", "Parse failed"),
                    !.conversion_checks.tab_to_staff = Check("skipped", "Parse failed")]
            /\ UNCHANGED <<calls, files>>
       ELSE AttemptConversion("staff_to_tab", "staff", "tab",
                              "tab_musicxml_file_id", "tab_to_staff")
    /\ UNCHANGED <<response, urest>>

\* the staff -> tab half of the preview pass; a failed parse skips both halves
UploadStaffToTab ==
    /\ up.pc = "staff_to_tab"
    /\ IF up.parse_status # "success"
       THEN /\ up' = [up EXCEPT
                    !.pc = "respond",
                    !.conversion_checks.staff_to_tab = Check("skipped", "Parse failed"),
                    !.conversion_checks.tab_to_staff = Check("skipped", "Parse failed")]
            /\ UNCHANGED <<calls, files>>
       ELSE IF has_staff
       THEN AttemptConversion("staff_to_tab", "staff", "tab",
                              "tab_musicxml_file_id", "tab_to_staff")
       ELSE /\ up' = [up EXCEPT
                    !.pc = "tab_to_staff",
                    !.conversion_checks.staff_to_tab =
                        Check("skipped", "Source lacks staff notation")]
            /\ UNCHANGED <<calls, files>>
    /\ UNCHANGED <<response, urest>>

\* the tab -> staff half of the preview pass
UploadTabToStaff ==
    /\ up.pc = "tab_to_staff"
    /\ IF has_tab
       THEN AttemptConversion("tab_to_staff", "tab", "staff",
                              "staff_musicxml_file_id", "respond")
       ELSE /\ up' = [up EXCEPT
                    !.pc = "respond",
                    !.conversion_checks.tab_to_staff =
                        Check("skipped", "Source lacks tablature")]
            /\ UNCHANGED <<calls, files>>
    /\ UNCHANGED <<response, urest>>

\* a or b, for file ids
Or(a, b) == IF a # NoneFile THEN a ELSE b

\* return {...}: status 201 with the body
UploadRespond ==
    /\ up.pc = "respond"
    /\ response' =
        [status_code |-> 201,
         file_id |-> Or(up.musicxml_file_id, up.original_file_id),
         midi_file_id |-> up.midi_file_id,
         title |-> IF up.metadata.present THEN <<>> ELSE RsplitHead(up.filename),
         original_file_id |-> up.original_file_id,
         musicxml_file_id |-> up.musicxml_file_id,
         filename |-> up.filename,
         content_type |-> up.content_type,
         size |-> up.content_len,
         parse_status |-> up.parse_status,
         parse_error |-> up.parse_error,
         midi_status |-> up.midi_status,
         midi_error |-> up.midi_error,
         conversion_checks |-> up.conversion_checks,
         preview_assets |-> up.preview_assets]
    /\ up' = [up EXCEPT !.pc = "done"]
    /\ UNCHANGED <<calls, files, urest>>

(* --------------------------- validate_musicxml ------------------------- *)
\* the name validate_musicxml parses its input under
VALIDATION_XML ==
    <<"v", "a", "l", "i", "d", "a", "t", "i", "o", "n", ".", "x", "m", "l">>

\* a failure of the parser that is not a MusicXMLParseError
Unexpected == {[raised |-> "Exception", message |-> "unexpected"]}

ValidationResponse(valid, metadata, parse_error) ==
    [pc |-> "done", status_code |-> 200, valid |-> valid, metadata |-> metadata,
     parse_error |-> parse_error]

\* validate_musicxml without its last except clause
ValidateMusicxmlNoSafetyNet ==
    /\ \E result \in parse_musicxml(VALIDATION_XML) \cup Unexpected :
        validation' =
            IF result.raised = None
            THEN ValidationResponse(TRUE, result.metadata, None)
            ELSE IF result.raised = "MusicXMLParseError"
            THEN ValidationResponse(FALSE, NoMetadata, result.message)
            ELSE [pc |-> "done", status_code |-> 500]
    /\ UNCHANGED <<qvars, uvars, cvars, pvars, fvars>>

\* validate_musicxml(request): the whole handler; it awaits nothing
ValidateMusicxml ==
    /\ \E result \in parse_musicxml(VALIDATION_XML) \cup Unexpected :
        validation' =
            IF result.raised = None
            THEN ValidationResponse(TRUE, result.metadata, None)
            ELSE IF result.raised = "MusicXMLParseError"
            THEN ValidationResponse(FALSE, NoMetadata, result.message)
            ELSE ValidationResponse(FALSE, NoMetadata,
                                    "Validation failed: " \o result.message)
    /\ UNCHANGED <<qvars, uvars, cvars, pvars, fvars>>

UploadNext ==
    \/ UploadCheckSize
    \/ UploadCheckExtension
    \/ UploadCheckContentType
    \/ UploadStoreOriginal
    \/ UploadParse
    \/ UploadStoreCleaned
    \/ UploadGenerateMidi
    \/ UploadStoreMidi
    \/ UploadSkipMidi
    \/ UploadStaffToTab
    \/ UploadTabToStaff
    \/ UploadRespond
    \/ ValidateMusicxml

UploadSpec == UploadInit /\ [][UploadNext]_vars

(* =================== Part III: convert_musicxml, called =================== *)
\* the values a caller may pass as from_notation and to_notation
Notations == {"staff", "tab", "both"}

NoResult == [raised |-> None, message |-> <<>>, converted |-> None, effects |-> <<>>]

\* one call of convert_musicxml, about to be made in some environment
ConverterInit ==
    /\ QInit /\ NoUpload /\ NoValidation /\ NoPieces /\ NoParserCall /\ NoPoll
    /\ conv \in {[pc |-> "call", env |-> env, from_notation |-> f,
                  to_notation |-> t, result |-> NoResult] :
                    env \in Environments, f \in Notations, t \in Notations}

\* the call runs to its return or its exception
ConvertCall ==
    /\ conv.pc = "call"
    /\ conv' = [conv EXCEPT
            !.pc = "done",
            !.result = convert_musicxml(conv.env, conv.from_notation,
                                        conv.to_notation)]
    /\ UNCHANGED <<qvars, uvars, validation, pvars, fvars>>

ConverterNext == ConvertCall

ConverterSpec == ConverterInit /\ [][ConverterNext]_vars

(* ====================== Part IV: the pieces routes ===================== *)
\* number of requests in a behaviour that write a timestamp
MaxClock == 4
\* number of uuid4() values that become the id of a document in a behaviour
MaxUuids == 4
\* the cap of list_pieces, cursor.to_list(length=100), scaled to the size of
\* the collections explored here
ListLimit == 2

\* ids a client may address: ids that are issued at some time, to a piece or
\* to a version, and so always some that name no piece
IdArgs == 1..(MaxUuids - 1)

NoneTime == 0 - 1

SOR == <<"S", "o", "r">>
PONCE == <<"P", "o", "n", "c", "e">>

(* ------------------------------ documents ------------------------------ *)
\* Piece(id=..., title=..., ...): the fields a create request does not carry
\* take their defaults; both timestamps are read within the one constructor
\* call and are modelled as one instant
Piece(id, data, now) ==
    [id |-> id, title |-> data.title, composer |-> data.composer,
     tags |-> data.tags, tuning |-> data.tuning, capo |-> data.capo,
     created_at |-> now, updated_at |-> now,
     is_archived |-> FALSE, archived_at |-> NoneTime, versions |-> <<>>]

\* PieceCreate bodies that passed validation
PieceCreates ==
    {[title |-> "Estudio", composer |-> SOR, tags |-> {"etude"},
      tuning |-> "DADGAD", capo |-> 2]}

\* PieceUpdate bodies that passed validation: a field left out, or sent as
\* null, is absent from the body
PieceUpdates ==
    {<<>>,
     [composer |-> PONCE],
     [tags |-> {"study"}, capo |-> 5]}

Asset(id, kind, filename) == [id |-> id, kind |-> kind, filename |-> filename]

Version(id, piece_id, source_type, assets) ==
    [id |-> id, piece_id |-> piece_id, source_type |-> source_type,
     tempo |-> 120, key |-> "C", time_signature |-> "4/4", assets |-> assets,
     original_file_id |-> None]

\* version_data bodies: an absent key is None here
VersionPayloads ==
    {[file_id |-> "f", midi_file_id |-> "m", source_type |-> None],
     [file_id |-> "f", midi_file_id |-> None, source_type |-> "xml"]}

source_types == {"pdf", "musicxml", "mxl", "midi"}

(* ------------------------------ collection ----------------------------- *)
StoredIds == DOMAIN pieces

insert_one(doc) == pieces' = [i \in StoredIds \cup {doc.id} |->
                                IF i = doc.id THEN doc ELSE pieces[i]]

delete_one(id) == pieces' = [i \in StoredIds \ {id} |-> pieces[i]]

\* a document with the fields of a $set applied
Merge(doc, fields) ==
    [k \in DOMAIN doc |-> IF k \in DOMAIN fields THEN fields[k] ELSE doc[k]]

\* update_many({"id": {"$in": ids}}, {"$set": fields}): the stored documents
\* among ids get the fields; the others, and an id that names none, are left
\* alone
update_many(ids, fields) ==
    pieces' = [i \in StoredIds |->
                IF i \in ids THEN Merge(pieces[i], fields) ELSE pieces[i]]

\* update_one({"id": id}, {"$set": fields})
update_one(id, fields) == update_many({id}, fields)

(* ------------------------------- replies ------------------------------- *)
Reply(op, request, status_code, body) ==
    [op |-> op, request |-> request, status_code |-> status_code, body |-> body]

NotFound(op, request) == Reply(op, request, 404, "Piece not found")

\* a reading of datetime.now that is written, and a uuid4 that becomes an id:
\* each later than, or different from, every one before; a reading or an id
\* that the request discards leaves no trace
Tick == clock < MaxClock /\ clock' = clock + 1
Draw == uuids < MaxUuids /\ uuids' = uuids + 1

(* ------------------------------- handlers ------------------------------ *)
\* create_piece(piece_data)
CreatePiece(data) ==
    /\ Tick /\ Draw
    /\ insert_one(Piece(uuids', data, clock'))
    /\ reply' = Reply("create_piece", data, 201, Piece(uuids', data, clock'))
    /\ UNCHANGED bulk

\* get_piece(piece_id)
GetPiece(id) ==
    /\ reply' = IF id \in StoredIds THEN Reply("get_piece", id, 200, pieces[id])
                ELSE NotFound("get_piece", id)
    /\ UNCHANGED <<pieces, clock, uuids, bulk>>

\* update_piece looks the piece up before it looks at the body
UpdatePieceLooksUpFirst(id, data) ==
    IF id \notin StoredIds
    THEN /\ reply' = NotFound("update_piece", [id |-> id, data |-> data])
         /\ UNCHANGED <<pieces, clock, uuids, bulk>>
    ELSE IF DOMAIN data = {}
    THEN /\ reply' = Reply("update_piece", [id |-> id, data |-> data], 400,
                          "No fields to update")
         /\ UNCHANGED <<pieces, clock, uuids, bulk>>
    ELSE /\ Tick
         /\ update_one(id, data @@ [updated_at |-> clock'])
         /\ reply' = Reply("update_piece", [id |-> id, data |-> data], 200,
                          pieces'[id])
         /\ UNCHANGED <<uuids, bulk>>

\* update_piece without the updated_at it adds to the $set
UpdatePieceNoStamp(id, data) ==
    IF DOMAIN data = {}
    THEN /\ reply' = Reply("update_piece", [id |-> id, data |-> data], 400,
                          "No fields to update")
         /\ UNCHANGED <<pieces, clock, uuids, bulk>>
    ELSE IF id \notin StoredIds
    THEN /\ reply' = NotFound("update_piece", [id |-> id, data |-> data])
         /\ UNCHANGED <<pieces, clock, uuids, bulk>>
    ELSE /\ update_one(id, data)
         /\ reply' = Reply("update_piece", [id |-> id, data |-> data], 200,
                           pieces'[id])
         /\ UNCHANGED <<clock, uuids, bulk>>

\* update_piece(piece_id, piece_data)
UpdatePiece(id, data) ==
    IF DOMAIN data = {}
    THEN /\ reply' = Reply("update_piece", [id |-> id, data |-> data], 400,
                          "No fields to update")
         /\ UNCHANGED <<pieces, clock, uuids, bulk>>
    ELSE IF id \notin StoredIds
    THEN /\ reply' = NotFound("update_piece", [id |-> id, data |-> data])
         /\ UNCHANGED <<pieces, clock, uuids, bulk>>
    ELSE /\ Tick
         /\ update_one(id, data @@ [updated_at |-> clock'])
         /\ reply' = Reply("update_piece", [id |-> id, data |-> data], 200,
                           pieces'[id])
         /\ UNCHANGED <<uuids, bulk>>

\* delete_piece(piece_id)
DeletePiece(id) ==
    /\ delete_one(id)
    /\ reply' = IF id \in StoredIds THEN Reply("delete_piece", id, 204, "")
                ELSE NotFound("delete_piece", id)
    /\ UNCHANGED <<clock, uuids, bulk>>

\* archive_piece(piece_id) and unarchive_piece(piece_id)
SetArchived(op, id, fields) ==
    IF id \notin StoredIds
    THEN /\ reply' = NotFound(op, id)
         /\ UNCHANGED <<pieces, clock, uuids, bulk>>
    ELSE /\ Tick
         /\ update_one(id, fields)
         /\ reply' = Reply(op, id, 200, pieces'[id])
         /\ UNCHANGED <<uuids, bulk>>

\* the archive field set without its date: a mutation used to test the claims
ArchiveFieldsUndated(now) == [is_archived |-> TRUE, updated_at |-> now]

ArchiveFields(now) ==
    [is_archived |-> TRUE, archived_at |-> now, updated_at |-> now]
UnarchiveFields(now) ==
    [is_archived |-> FALSE, archived_at |-> NoneTime, updated_at |-> now]

ArchivePiece(id) == SetArchived("archive_piece", id, ArchiveFields(clock'))
UnarchivePiece(id) == SetArchived("unarchive_piece", id, UnarchiveFields(clock'))

\* add_version with $set in place of $push: the new version replaces the list
AddVersionReplaces(id, version_data) ==
    IF id \notin StoredIds
    THEN /\ reply' = NotFound("add_version", [id |-> id, data |-> version_data])
         /\ UNCHANGED <<pieces, clock, uuids, bulk>>
    ELSE LET source_type == IF version_data.source_type = None THEN "musicxml"
                            ELSE version_data.source_type
             primary == IF version_data.file_id = None THEN <<>>
                        ELSE <<Asset(version_data.file_id, source_type, "score.xml")>>
             midi == IF version_data.midi_file_id = None THEN <<>>
                     ELSE <<Asset(version_data.midi_file_id, "midi", "score.mid")>>
             version == Version(uuids', id, source_type, primary \o midi)
         IN  /\ IF source_type \notin source_types
                THEN /\ reply' = Reply("add_version",
                                       [id |-> id, data |-> version_data], 500,
                                       "ValidationError")
                     /\ UNCHANGED <<pieces, clock, uuids>>
                ELSE /\ Draw /\ Tick
                     /\ update_one(id, [versions |-> <<version>>,
                                         updated_at |-> clock'])
                     /\ reply' = Reply("add_version",
                                       [id |-> id, data |-> version_data], 201,
                                       pieces'[id])
             /\ UNCHANGED bulk

\* add_version(piece_id, version_data); Asset(...) and Version(...) validate
\* their fields and raise on a source_type outside the Literal
AddVersion(id, version_data) ==
    IF id \notin StoredIds
    THEN /\ reply' = NotFound("add_version", [id |-> id, data |-> version_data])
         /\ UNCHANGED <<pieces, clock, uuids, bulk>>
    ELSE LET source_type == IF version_data.source_type = None THEN "musicxml"
                            ELSE version_data.source_type
             primary == IF version_data.file_id = None THEN <<>>
                        ELSE <<Asset(version_data.file_id, source_type, "score.xml")>>
             midi == IF version_data.midi_file_id = None THEN <<>>
                     ELSE <<Asset(version_data.midi_file_id, "midi", "score.mid")>>
             version == Version(uuids', id, source_type, primary \o midi)
         IN  /\ IF source_type \notin source_types
                THEN /\ reply' = Reply("add_version",
                                       [id |-> id, data |-> version_data], 500,
                                       "ValidationError")
                     /\ UNCHANGED <<pieces, clock, uuids>>
                ELSE /\ Draw /\ Tick
                     /\ update_one(id, [versions |-> Append(pieces[id].versions,
                                                             version),
                                         updated_at |-> clock'])
                     /\ reply' = Reply("add_version",
                                       [id |-> id, data |-> version_data], 201,
                                       pieces'[id])
             /\ UNCHANGED bulk

(* ------------------------------ list_pieces ---------------------------- *)
TRUE_STR == <<"t", "r", "u", "e">>
FALSE_STR == <<"f", "a", "l", "s", "e">>
ALL_STR == <<"a", "l", "l">>

\* the query strings explored: archived alone, in every spelling, and each
\* of the other filters with archived=false and archived=all
NoFilters(archived) ==
    [tag |-> None, composer |-> <<>>, tuning |-> None, archived |-> archived]
ArchivedValues ==
    {TRUE_STR, FALSE_STR, ALL_STR, <<"T", "R", "U", "E">>, <<>>, <<"y", "e", "s">>}
ListRequests ==
    {NoFilters(a) : a \in ArchivedValues}
    \cup {[NoFilters(ALL_STR) EXCEPT !.tag = "etude"],
          [NoFilters(ALL_STR) EXCEPT !.composer = <<"s", "o">>],
          [NoFilters(FALSE_STR) EXCEPT !.tuning = "DADGAD"]}

\* {"$regex": t, "$options": "i"} for a t without metacharacters: t occurs in
\* s, letter case apart
Occurs(t, s) ==
    \E i \in 0..(Len(s) - Len(t)) : SubSeq(lower(s), i + 1, i + Len(t)) = lower(t)

\* the archived value taken as it was sent
ArchivedFilterExact(archived) == archived

\* archived_filter = (archived or "false").lower()
ArchivedFilter(archived) == lower(IF archived # <<>> THEN archived ELSE FALSE_STR)

\* the query list_pieces builds
Matches(doc, request) ==
    /\ Truthy(request.tag) => request.tag \in doc.tags
    /\ request.composer # <<>> => Occurs(request.composer, doc.composer)
    /\ Truthy(request.tuning) => doc.tuning = request.tuning
    /\ ArchivedFilter(request.archived) = TRUE_STR => doc.is_archived = TRUE
    /\ ArchivedFilter(request.archived) = FALSE_STR => doc.is_archived # TRUE

\* the orders in which a cursor sorted by sort_field, descending, may yield
\* docs: documents with equal values come in any order
Sorted(docs, sort_field) ==
    {s \in [1..Cardinality(docs) -> docs] :
        /\ \A i, j \in 1..Cardinality(docs) : i # j => s[i] # s[j]
        /\ \A i \in 1..(Cardinality(docs) - 1) :
            s[i][sort_field] >= s[i + 1][sort_field]}

\* cursor.to_list(length=n)
to_list(s, n) == [i \in 1..(IF Len(s) < n THEN Len(s) ELSE n) |-> s[i]]

\* list_pieces sorts by created_at whatever the filter
ListPiecesSortsByCreation(request) ==
    /\ IF ArchivedFilter(request.archived) \notin {TRUE_STR, FALSE_STR, ALL_STR}
       THEN reply' = Reply("list_pieces", request, 400, "Invalid 'archived' filter")
       ELSE \E s \in Sorted({pieces[i] : i \in {k \in StoredIds :
                                                  Matches(pieces[k], request)}},
                            "created_at") :
                reply' = Reply("list_pieces", request, 200, to_list(s, ListLimit))
    /\ UNCHANGED <<pieces, clock, uuids, bulk>>

\* list_pieces(tag, composer, tuning, archived)
ListPieces(request) ==
    /\ IF ArchivedFilter(request.archived) \notin {TRUE_STR, FALSE_STR, ALL_STR}
       THEN reply' = Reply("list_pieces", request, 400, "Invalid 'archived' filter")
       ELSE LET found == {pieces[i] : i \in {k \in StoredIds :
                                               Matches(pieces[k], request)}}
            IN  \E s \in IF ArchivedFilter(request.archived) = TRUE_STR
                         THEN Sorted(found, "archived_at")
                         ELSE Sorted(found, "created_at") :
                    reply' = Reply("list_pieces", request, 200,
                                   to_list(s, ListLimit))
    /\ UNCHANGED <<pieces, clock, uuids, bulk>>

(* -------------------------- bulk_archive_pieces ------------------------ *)
Range(s) == {s[i] : i \in DOMAIN s}

\* non-empty lists of ids a bulk request may carry: with and without
\* repetition and ids that name no piece
BulkIdLists ==
    {<<a>> : a \in IdArgs}
    \cup {p \in IdArgs \X IdArgs : p[1] < p[2]}
    \cup {<<1, 1>>}

BulkFields(action, now) ==
    IF action = "archive" THEN ArchiveFields(now) ELSE UnarchiveFields(now)

\* the cursor yields every existing document once, in an order of its own
ExistingIds(piece_ids) ==
    LET existing == Range(piece_ids) \cap StoredIds
    IN  {s \in [1..Cardinality(existing) -> existing] :
            \A i, j \in 1..Cardinality(existing) : i # j => s[i] # s[j]}

\* the pre-fetch omitted: the request's own list is written and returned
BulkFindTrusting(piece_ids, action) ==
    /\ bulk.pc = "idle"
    /\ clock < MaxClock
    /\ bulk' = [pc |-> "update", piece_ids |-> piece_ids, action |-> action,
                existing_ids |-> piece_ids]
    /\ UNCHANGED <<pieces, clock, uuids, reply>>

\* bulk_archive_pieces up to its second await: the pre-fetch of existing ids
BulkFind(piece_ids, action) ==
    /\ bulk.pc = "idle"
    /\ IF Range(piece_ids) \cap StoredIds = {}
       THEN /\ reply' = Reply("bulk_archive_pieces",
                              [piece_ids |-> piece_ids, action |-> action], 200,
                              [updated |-> <<>>])
            /\ UNCHANGED bulk
       ELSE /\ clock < MaxClock
            /\ \E existing_ids \in ExistingIds(piece_ids) :
                bulk' = [pc |-> "update", piece_ids |-> piece_ids,
                         action |-> action, existing_ids |-> existing_ids]
            /\ UNCHANGED reply
    /\ UNCHANGED <<pieces, clock, uuids>>

\* bulk_archive_pieces from its second await: update_many and the response
BulkUpdate ==
    /\ bulk.pc = "update"
    /\ Tick
    /\ update_many(Range(bulk.existing_ids), BulkFields(bulk.action, clock'))
    /\ reply' = Reply("bulk_archive_pieces",
                      [piece_ids |-> bulk.piece_ids, action |-> bulk.action], 200,
                      [updated |-> bulk.existing_ids])
    /\ bulk' = [pc |-> "idle"]
    /\ UNCHANGED uuids

(* --------------------------- reprocess_version ------------------------- *)
\* reprocess_version answers 501 without looking at the version
ReprocessVersionUnchecked(id, version_id) ==
    /\ reply' = LET request == [id |-> id, version_id |-> version_id]
                IN  IF id \notin StoredIds
                    THEN NotFound("reprocess_version", request)
                    ELSE Reply("reprocess_version", request, 501, "coming soon")
    /\ UNCHANGED <<pieces, clock, uuids, bulk>>

\* reprocess_version(piece_id, version_id)
ReprocessVersion(id, version_id) ==
    /\ reply' =
        LET request == [id |-> id, version_id |-> version_id]
        IN  IF id \notin StoredIds
            THEN NotFound("reprocess_version", request)
            ELSE LET versions == pieces[id].versions
                     at == {i \in 1..Len(versions) : versions[i].id = version_id}
                 IN  IF at = {}
                     THEN Reply("reprocess_version", request, 404,
                                "Version not found")
                     ELSE IF ~Truthy(versions[CHOOSE i \in at :
                                                \A k \in at : i <= k].original_file_id)
                     THEN Reply("reprocess_version", request, 400,
                                "Version does not have original_file_id")
                     ELSE Reply("reprocess_version", request, 501, "coming soon")
    /\ UNCHANGED <<pieces, clock, uuids, bulk>>

(* --------------------------- the specification ------------------------- *)
\* a document stored before the process started: a piece whose only version
\* carries the original_file_id that reprocess_version asks for
LegacyPiece ==
    [Piece(1, [title |-> "Capricho", composer |-> <<>>, tags |-> {},
               tuning |-> "EADGBE", capo |-> 0], 1)
     EXCEPT !.versions = << [Version(2, 1, "musicxml", <<>>)
                             EXCEPT !.original_file_id = "o"] >> ]

\* the collection outlives the process: at start-up it is empty or holds the
\* documents written before
PiecesInit ==
    /\ QInit /\ NoUpload /\ NoValidation /\ NoConversion /\ NoParserCall /\ NoPoll
    /\ \/ pieces = <<>> /\ clock = 0 /\ uuids = 0
       \/ pieces = [i \in {1} |-> LegacyPiece] /\ clock = 1 /\ uuids = 2
    /\ bulk = [pc |-> "idle"]
    /\ reply = [op |-> "none", status_code |-> 0]

\* the step A of a pieces request
Serving(A) == A /\ UNCHANGED <<qvars, uvars, validation, cvars, fvars>>

\* a request that only reads: between the two awaits of a bulk request it
\* would change nothing but the reply that the bulk request then replaces
Reading(A) == bulk.pc = "idle" /\ Serving(A)

PiecesNext ==
    \/ \E data \in PieceCreates : Serving(CreatePiece(data))
    \/ \E id \in IdArgs : Reading(GetPiece(id))
    \/ \E id \in IdArgs, data \in PieceUpdates : Serving(UpdatePiece(id, data))
    \/ \E id \in IdArgs : Serving(DeletePiece(id))
    \/ \E id \in IdArgs, data \in VersionPayloads : Serving(AddVersion(id, data))
    \/ \E id \in IdArgs : Serving(ArchivePiece(id))
    \/ \E id \in IdArgs : Serving(UnarchivePiece(id))
    \/ \E ids \in BulkIdLists, action \in {"archive", "unarchive"} :
        Serving(BulkFind(ids, action))
    \/ Serving(BulkUpdate)
    \/ \E request \in ListRequests : Reading(ListPieces(request))
    \/ \E id \in IdArgs, version_id \in IdArgs :
        Reading(ReprocessVersion(id, version_id))

PiecesSpec == PiecesInit /\ [][PiecesNext]_vars

(* ========================== claims: upload ============================= *)
Responded == up.pc = "done"
CalledFn(fn) == \E i \in 1..Len(calls) : calls[i].fn = fn
Stored(kind) == \E f \in files : f.kind = kind
StorageFailedAt(kind) ==
    \E i \in 1..Len(calls) :
        calls[i] = Called("storage.upload_file", kind, TRUE)

\* C8: once the content of an upload that passed the three checks has failed
\* to parse, MIDI generation is never called and no cleaned MusicXML or MIDI
\* blob is written; the request responds 201 with original_file_id (also
\* file_id) naming the stored original, parse_status failed, a non-empty
\* parse_error, midi_status skipped and no midi_file_id or musicxml_file_id.
C8_ParseFailureStillCreated ==
    up.parse_status = "failed" =>
        /\ ~CalledFn("parser.generate_midi")
        /\ ~Stored("cleaned") /\ ~Stored("midi")
        /\ Responded =>
            /\ response.status_code = 201
            /\ response.original_file_id \in files
            /\ response.original_file_id.kind = "original"
            /\ response.file_id = response.original_file_id
            /\ response.parse_status = "failed"
            /\ response.parse_error # None
            /\ Len(response.parse_error) > 0
            /\ response.midi_status = "skipped"
            /\ response.midi_file_id = NoneFile
            /\ response.musicxml_file_id = NoneFile

\* an .mxl upload whose archive could not be read has been answered
C8_Witness ==
    /\ Responded
    /\ up.parse_status = "failed"
    /\ response.parse_error = "Failed to extract MXL: "

\* the file names among Filenames whose extension is not an allowed one
DisallowedNames ==
    {<<"s", ".", "t", "x", "t">>, <<"s">>, <<".", "x", "m", "l">>,
     <<"s", ".", "x", "m", "l", "/", "t">>}
Oversize == up.content_len > max_upload_size
ExtensionRejected == response = HTTPException(415, "Unsupported file extension")

C10_AnyStorageFailureIs500 ==
    Responded =>
        /\ response.status_code = 500 <=>
            \E kind \in {"original", "cleaned", "midi", "converted"} :
                StorageFailedAt(kind)
        /\ response.status_code \in {201, 413, 415, 500}

\* C10 amended: the request responds 500 exactly when the write of the
\* original, of the cleaned MusicXML or of the MIDI failed (so no parse, MIDI
\* or conversion failure fails it, and once the three checks are passed it
\* responds 201 otherwise); a failed write of a converted preview is
\* recorded as that check's status failed, with no preview id, in a 201.
C10_RequiredStorageFailureIs500 ==
    Responded =>
        /\ response.status_code = 500 <=>
            \E kind \in {"original", "cleaned", "midi"} : StorageFailedAt(kind)
        /\ response.status_code \in {201, 413, 415, 500}
        /\ (calls # <<>> /\ response.status_code # 500) => response.status_code = 201
        /\ StorageFailedAt("converted") =>
            /\ response.status_code = 201
            /\ \E k \in {"staff_to_tab", "tab_to_staff"} :
                response.conversion_checks[k] = Check("failed", "Storage failed")
            /\ \A k \in {"staff_to_tab", "tab_to_staff"} :
                response.conversion_checks[k].status = "failed" =>
                    response.preview_assets[IF k = "staff_to_tab"
                                            THEN "tab_musicxml_file_id"
                                            ELSE "staff_musicxml_file_id"] = NoneFile

\* a 201 whose MIDI generation failed and whose preview could not be stored
C10_Witness ==
    /\ Responded
    /\ response.status_code = 201
    /\ response.midi_status = "failed"
    /\ StorageFailedAt("converted")

ConversionCheckKeys == {"staff_to_tab", "tab_to_staff"}
\* the conversion recorded under check k looked for the tool and did not find it
CliMissing(k) ==
    \E i \in 1..Len(calls) : calls[i] = Called("shutil.which", k, TRUE)
ConvertFailed(k) ==
    \E i \in 1..Len(calls) : calls[i] = Called("converter.convert_musicxml", k, TRUE)
CheckOf(k) ==
    IF response.status_code = 201 THEN response.conversion_checks[k]
    ELSE up.conversion_checks[k]

\* C11: a preview conversion whose input parsed and which did not find the
\* rendering tool on the path fails with a message that still contains
\* 'MuseScore CLI not available' and is recorded, and reported in the 201
\* response, with status unavailable; every other failed conversion is
\* recorded as failed, and no check is unavailable for any other reason.
C11_MissingCliIsUnavailable ==
    \A k \in ConversionCheckKeys :
        k \in DOMAIN up.conversion_checks =>
            /\ CliMissing(k) =>
                /\ ConvertFailed(k)
                /\ CheckOf(k).status = "unavailable"
                /\ Contains(CheckOf(k).note, "MuseScore CLI not available")
            /\ ConvertFailed(k) /\ ~CliMissing(k) => CheckOf(k).status = "failed"
            /\ CheckOf(k).status = "unavailable" => CliMissing(k)

C11_Witness ==
    /\ response.status_code = 201
    /\ CliMissing("staff_to_tab")
    /\ response.conversion_checks["staff_to_tab"].status = "unavailable"
    /\ ConvertFailed("tab_to_staff")
    /\ response.conversion_checks["tab_to_staff"].status = "failed"

\* the source notation that the conversion recorded under check k starts from
\* is in the detected metadata
SourceDetected(k) ==
    /\ up.metadata.present
    /\ IF k = "staff_to_tab" THEN up.metadata.has_staff_notation
       ELSE up.metadata.has_tablature
ConversionAttempted(k) ==
    \E i \in 1..Len(calls) :
        calls[i].fn = "converter.convert_musicxml" /\ calls[i].what = k
PreviewSlot(k) ==
    IF k = "staff_to_tab" THEN "tab_musicxml_file_id" ELSE "staff_musicxml_file_id"

\* C23: in a 201 response each of the staff_to_tab and tab_to_staff checks is
\* skipped, with a reason, when the parse failed, when its source notation is
\* not in the detected metadata or when there is no cleaned XML; a conversion
\* was attempted only if the parse succeeded and the source notation is
\* there; and a preview file id is recorded only for a check that succeeded
C23_PreviewChecksSkipped ==
    response.status_code = 201 =>
        \A k \in ConversionCheckKeys :
            LET check == response.conversion_checks[k]
            IN  /\ \/ up.parse_status # "success"
                   \/ ~SourceDetected(k)
                   \/ ~Truthy(up.cleaned_xml)
                    => /\ check.status = "skipped" /\ check.note # ""
                       /\ ~ConversionAttempted(k)
                /\ ConversionAttempted(k) =>
                    up.parse_status = "success" /\ SourceDetected(k)
                /\ response.preview_assets[PreviewSlot(k)] # NoneFile =>
                    check.status = "success"

\* a 201 for a tablature-only source: staff -> tab skipped for want of staff
\* notation, tab -> staff attempted, stored and recorded
C23_Witness ==
    /\ response.status_code = 201
    /\ up.parse_status = "success"
    /\ response.conversion_checks["staff_to_tab"] =
            Check("skipped", "Source lacks staff notation")
    /\ ConversionAttempted("tab_to_staff") /\ ~ConversionAttempted("staff_to_tab")
    /\ response.conversion_checks["tab_to_staff"].status = "success"
    /\ response.preview_assets["staff_musicxml_file_id"] # NoneFile
    /\ response.preview_assets["tab_musicxml_file_id"] = NoneFile

\* a step of the validate-musicxml endpoint
Validates == validation' # validation

\* C20: a call of validate-musicxml ends with a 200 response that is either
\* valid with metadata and no parse_error, or not valid with no metadata and
\* a non-empty parse_error, whatever the parser did, and the call writes no
\* blob, makes no storage call and changes no piece.
C20_ValidateHasNoEffect ==
    [][Validates =>
        /\ validation'.status_code = 200
        /\ \/ /\ validation'.valid
              /\ validation'.metadata.present
              /\ validation'.parse_error = None
           \/ /\ ~validation'.valid
              /\ validation'.metadata = NoMetadata
              /\ Truthy(validation'.parse_error)
        /\ files' = files /\ calls' = calls /\ pieces' = pieces
        /\ up' = up /\ response' = response]_vars

C20_Witness ==
    /\ validation.pc = "done"
    /\ ~validation.valid
    /\ validation.parse_error = "Validation failed: unexpected"
    /\ Stored("original")

(* ========================= claims: convert_musicxml ==================== *)
\* C19: a call of convert_musicxml with from_notation equal to to_notation
\* raises ValueError, not ConversionError, whether or not mscore-headless is
\* installed, and has by then neither written the input file nor parsed it
\* nor looked for or run the tool.
C19_SameNotationIsValueError ==
    conv.pc = "done" /\ conv.from_notation = conv.to_notation =>
        /\ conv.result.raised = "ValueError"
        /\ conv.result.effects = <<>>

C19_Witness ==
    /\ conv.pc = "done"
    /\ conv.from_notation = "tab" /\ conv.to_notation = "tab"
    /\ ~conv.env.installed
    /\ conv.result.raised = "ValueError"

(* ============================ claims: pieces =========================== *)
\* steps of bulk_archive_pieces
BulkFinds == bulk.pc = "idle" /\ bulk'.pc = "update"
BulkUpdates == bulk.pc = "update" /\ bulk'.pc = "idle"
BulkAnswersEmpty ==
    /\ bulk.pc = "idle" /\ bulk'.pc = "idle"
    /\ reply'.op = "bulk_archive_pieces"

ArchivalFields == {"is_archived", "archived_at", "updated_at"}

\* the document before and after differ in the fields of names at most
SameBut(names, before, after) ==
    /\ DOMAIN after = DOMAIN before
    /\ \A k \in DOMAIN before \ names : after[k] = before[k]

\* after carries the archive, or unarchive, field set stamped at instant now
Archived(action, after, now) ==
    /\ after.updated_at = now
    /\ IF action = "archive"
       THEN after.is_archived = TRUE /\ after.archived_at = now
       ELSE after.is_archived = FALSE /\ after.archived_at = NoneTime

\* C12: a bulk archive/unarchive request finds exactly the ids of its list
\* that name a stored piece, each once; it then writes the archive (or
\* unarchive) field set, stamped later than every earlier write, to exactly
\* the found pieces that are still stored, changes nothing else in them,
\* leaves every other piece as it was, and returns the found ids; when no id
\* of the list names a stored piece it answers 200 with an empty updated list
\* and writes nothing.
C12_BulkArchiveExactlyExisting ==
    [][/\ BulkFinds =>
            /\ Range(bulk'.existing_ids) = Range(bulk'.piece_ids) \cap StoredIds
            /\ Range(bulk'.existing_ids) # {}
            /\ Cardinality(Range(bulk'.existing_ids)) = Len(bulk'.existing_ids)
            /\ pieces' = pieces
       /\ BulkUpdates =>
            /\ reply'.status_code = 200
            /\ reply'.body.updated = bulk.existing_ids
            /\ DOMAIN pieces' = StoredIds
            /\ clock' > clock
            /\ \A i \in StoredIds :
                IF i \in Range(bulk.existing_ids)
                THEN /\ SameBut(ArchivalFields, pieces[i], pieces'[i])
                     /\ Archived(bulk.action, pieces'[i], clock')
                ELSE pieces'[i] = pieces[i]
       /\ BulkAnswersEmpty =>
            /\ Range(reply'.request.piece_ids) \cap StoredIds = {}
            /\ reply'.status_code = 200
            /\ reply'.body.updated = <<>>
            /\ pieces' = pieces]_vars

C12_Witness ==
    /\ reply.op = "bulk_archive_pieces"
    /\ reply.request = [piece_ids |-> <<1, 2>>, action |-> "archive"]
    /\ reply.body.updated = <<1>>
    /\ StoredIds = {1, 3}
    /\ pieces[1].is_archived /\ ~pieces[3].is_archived

\* the last request was a list_pieces that answered with pieces
Listed == reply.op = "list_pieces" /\ reply.status_code = 200
Listing(archived) == Listed /\ reply.request.archived = archived
InBody(doc) == \E i \in 1..Len(reply.body) : reply.body[i] = doc
Descending(field) ==
    \A i \in 1..(Len(reply.body) - 1) :
        reply.body[i][field] >= reply.body[i + 1][field]

\* nothing has been written since the piece was archived
JustArchived(doc) == doc.is_archived = TRUE /\ doc.archived_at = clock

\* C13 as stated: archived=false lists no archived piece, archived=true lists
\* only archived pieces by archived_at descending, archived=all lists by
\* created_at descending; a piece that has just been archived is left out by
\* the first and, other filters apart, listed by the other two.
C13_ListByArchivedFlag ==
    /\ Listing(FALSE_STR) =>
        \A i \in 1..Len(reply.body) : reply.body[i].is_archived # TRUE
    /\ Listing(TRUE_STR) =>
        /\ \A i \in 1..Len(reply.body) : reply.body[i].is_archived = TRUE
        /\ Descending("archived_at")
    /\ Listing(ALL_STR) => Descending("created_at")
    /\ \A id \in StoredIds :
        JustArchived(pieces[id]) =>
            /\ Listing(FALSE_STR) => ~InBody(pieces[id])
            /\ reply.op = "list_pieces"
               /\ reply.request \in {NoFilters(TRUE_STR), NoFilters(ALL_STR)}
                    => Listed /\ InBody(pieces[id])

\* the documents that match the request and come no later than doc in the
\* order the request sorts by
NotAfter(doc, request) ==
    {k \in StoredIds :
        /\ pieces[k] # doc
        /\ Matches(pieces[k], request)
        /\ IF ArchivedFilter(request.archived) = TRUE_STR
           THEN pieces[k].archived_at >= doc.archived_at
           ELSE pieces[k].created_at >= doc.created_at}

\* C13, amended: a list_pieces answer holds at most ListLimit stored pieces,
\* each once and each matching the request; with archived=false none of them
\* is archived, with archived=true all are and they come by archived_at
\* descending, otherwise they come by created_at descending; a stored piece
\* that matches is listed whenever fewer than ListLimit other matching pieces
\* come no later than it in that order, so a piece that has just been
\* archived is left out by archived=false and is listed by archived=true and
\* archived=all only within the cap.
C13_ListByArchivedFlagCapped ==
    Listed =>
        LET request == reply.request
            filter == ArchivedFilter(request.archived)
        IN  /\ Len(reply.body) <= ListLimit
            /\ \A i \in 1..Len(reply.body) :
                /\ reply.body[i].id \in StoredIds
                /\ reply.body[i] = pieces[reply.body[i].id]
                /\ Matches(reply.body[i], request)
                /\ \A j \in 1..Len(reply.body) :
                    i # j => reply.body[i].id # reply.body[j].id
            /\ filter = FALSE_STR =>
                \A i \in 1..Len(reply.body) : reply.body[i].is_archived # TRUE
            /\ filter = TRUE_STR =>
                /\ \A i \in 1..Len(reply.body) : reply.body[i].is_archived = TRUE
                /\ Descending("archived_at")
            /\ filter # TRUE_STR => Descending("created_at")
            /\ \A id \in StoredIds :
                /\ Matches(pieces[id], request)
                   /\ Cardinality(NotAfter(pieces[id], request)) < ListLimit
                        => InBody(pieces[id])
                /\ JustArchived(pieces[id]) /\ filter = FALSE_STR
                        => ~InBody(pieces[id])

C13_Witness ==
    /\ Listing(TRUE_STR)
    /\ Len(reply.body) = 2
    /\ JustArchived(reply.body[1])
    /\ reply.body[1].archived_at > reply.body[2].archived_at
    /\ reply.body[1].created_at < reply.body[2].created_at

\* a request of the kind op has just been answered
Answers(op) == reply'.op = op /\ reply' # reply

\* every stored piece but id is as it was, and none was added or removed
OthersUnchanged(id) ==
    /\ DOMAIN pieces' = StoredIds
    /\ \A i \in StoredIds \ {id} : pieces'[i] = pieces[i]

\* C14: update_piece with a body that supplies no field answers 400 and
\* changes no piece; with a body that supplies fields of a stored piece it
\* answers 200 with the piece as stored, sets those fields, moves updated_at
\* forward, and leaves every other field of the piece (id, created_at,
\* is_archived, archived_at, versions, the fields not supplied) and every
\* other piece as they were.
C14_UpdateTouchesSuppliedFieldsOnly ==
    [][Answers("update_piece") =>
        LET id == reply'.request.id
            data == reply'.request.data
        IN  /\ DOMAIN data = {} =>
                reply'.status_code = 400 /\ pieces' = pieces
            /\ DOMAIN data # {} /\ id \in StoredIds =>
                /\ reply'.status_code = 200
                /\ reply'.body = pieces'[id]
                /\ OthersUnchanged(id)
                /\ \A k \in DOMAIN data : pieces'[id][k] = data[k]
                /\ pieces'[id].updated_at > pieces[id].updated_at
                /\ SameBut(DOMAIN data \cup {"updated_at"}, pieces[id], pieces'[id])]_vars

C14_Witness ==
    /\ reply.op = "update_piece" /\ reply.status_code = 200
    /\ reply.request = [id |-> 1, data |-> [composer |-> PONCE]]
    /\ Cardinality(StoredIds) = 2
    /\ pieces[1].composer = PONCE /\ pieces[1].title = "Capricho"
    /\ pieces[1].is_archived /\ pieces[1].archived_at < pieces[1].updated_at
    /\ Len(pieces[1].versions) = 1

\* the operations addressed to one piece, and the id a reply's request names
PieceOps ==
    {"get_piece", "update_piece", "delete_piece", "add_version", "archive_piece",
     "unarchive_piece", "reprocess_version"}
AddressedId(r) ==
    IF r.op \in {"update_piece", "add_version", "reprocess_version"}
    THEN r.request.id ELSE r.request

\* a request on one piece has just been answered and its id named no piece
AnswersUnknown ==
    /\ reply'.op \in PieceOps /\ reply' # reply
    /\ AddressedId(reply') \notin StoredIds

NoFieldsUpdate(r) == r.op = "update_piece" /\ DOMAIN r.request.data = {}

IsPrefix(a, b) == Len(a) <= Len(b) /\ SubSeq(b, 1, Len(a)) = a

\* C16: an add_version request answered 201 has appended exactly one Version
\* to the end of the addressed piece's versions, with an id never issued
\* before and the piece's id as piece_id, and has moved updated_at forward in
\* the same write; the versions already there, the piece's other fields and
\* every other piece are as they were, and a request answered otherwise has
\* changed no piece. Whatever the request, the versions of a piece that
\* stays stored are kept, in order and unaltered.
C16_VersionsOnlyAppended ==
    [][/\ Answers("add_version") =>
            LET id == reply'.request.id
            IN  IF reply'.status_code = 201
                THEN /\ id \in StoredIds
                     /\ reply'.body = pieces'[id]
                     /\ OthersUnchanged(id)
                     /\ SameBut({"versions", "updated_at"}, pieces[id], pieces'[id])
                     /\ pieces'[id].updated_at > pieces[id].updated_at
                     /\ Len(pieces'[id].versions) = Len(pieces[id].versions) + 1
                     /\ IsPrefix(pieces[id].versions, pieces'[id].versions)
                     /\ LET version == pieces'[id].versions[Len(pieces'[id].versions)]
                        IN  /\ version.id \notin 1..uuids
                            /\ version.piece_id = id
                ELSE pieces' = pieces
       /\ \A i \in StoredIds \cap DOMAIN pieces' :
            /\ IsPrefix(pieces[i].versions, pieces'[i].versions)
            /\ ~Answers("add_version") => pieces'[i].versions = pieces[i].versions
      ]_vars

C16_Witness ==
    /\ reply.op = "add_version" /\ reply.status_code = 201
    /\ reply.request.id = 1
    /\ Cardinality(StoredIds) = 2
    /\ Len(pieces[1].versions) = 2
    /\ pieces[1].versions[1].original_file_id = "o"
    /\ pieces[1].versions[2].id = uuids
    /\ pieces[1].is_archived

VersionsNamed(id, version_id) ==
    {n \in 1..Len(pieces[id].versions) : pieces[id].versions[n].id = version_id}

C25_BulkAcknowledgesWrittenOnly ==
    reply.op = "bulk_archive_pieces" =>
        \A i \in Range(reply.body.updated) :
            /\ i \in StoredIds
            /\ Archived(reply.request.action, pieces[i], clock)

\* a bulk response names a piece that a delete_piece removed in between
C25_AcknowledgedDeleted ==
    /\ reply.op = "bulk_archive_pieces"
    /\ \E i \in Range(reply.body.updated) : i \notin StoredIds

\* is_archived and archived_at agree in a document
ArchiveFieldsAgree(doc) == doc.is_archived <=> doc.archived_at # NoneTime

\* C29: in every stored piece is_archived is true exactly when archived_at is
\* set, whatever requests were served; update_piece and add_version leave
\* is_archived and archived_at of every piece as they were
C29_ArchivedIffDated ==
    [][/\ \A i \in DOMAIN pieces' : ArchiveFieldsAgree(pieces'[i])
       /\ Answers("update_piece") \/ Answers("add_version") =>
            /\ DOMAIN pieces' = StoredIds
            /\ \A i \in StoredIds :
                /\ pieces'[i].is_archived = pieces[i].is_archived
                /\ pieces'[i].archived_at = pieces[i].archived_at]_vars

\* an archived piece that was updated and given a version since
C29_Witness ==
    /\ reply.op \in {"update_piece", "add_version"}
    /\ reply.status_code \in {200, 201}
    /\ \E i \in StoredIds :
        /\ pieces[i].is_archived /\ pieces[i].archived_at < pieces[i].updated_at
        /\ pieces[i].composer = PONCE
        /\ Len(pieces[i].versions) = 2

(* ================= Part V: the text functions of the parser =============== *)
(* ---------------------------------- text ------------------------------- *)
\* A text is a tuple of tokens. The characters that the patterns of
\* _sanitize_musicxml tell apart are tokens of their own: the double quote,
\* the angle brackets, the comma and white space; every other token is a run
\* of characters that holds none of them.
QUOTE == "\""
LT == "<"
GT == ">"
SPACE == " "
COMMA == ","
\* the line break and eight spaces that precede the inserted element
INDENT == "\n        "
\* a byte that is not valid UTF-8
INVALID == "\\xff"

\* pattern in text
Within(pattern, text) ==
    \E i \in 0..(Len(text) - Len(pattern)) :
        SubSeq(text, i + 1, i + Len(pattern)) = pattern

\* text has old at position i
At(text, old, i) ==
    /\ i + Len(old) - 1 <= Len(text)
    /\ SubSeq(text, i, i + Len(old) - 1) = old

\* str.replace(old, new, count) from position i on: the occurrences are taken
\* from the left and do not overlap; a negative count replaces them all
RECURSIVE ReplaceFrom(_, _, _, _, _)
ReplaceFrom(text, old, new, count, i) ==
    IF i > Len(text) THEN <<>>
    ELSE IF count # 0 /\ At(text, old, i)
         THEN new \o ReplaceFrom(text, old, new, count - 1, i + Len(old))
         ELSE <<text[i]>> \o ReplaceFrom(text, old, new, count, i + 1)

replace(text, old, new, count) == ReplaceFrom(text, old, new, count, 1)

\* xml_content.decode('utf-8'), and with errors='ignore' when that raises:
\* the invalid bytes are dropped
decode(xml_content) == SelectSeq(xml_content, LAMBDA token : token # INVALID)

(* --------------------------- _sanitize_musicxml ------------------------ *)
DISCONTINUE == <<"type=", QUOTE, "discontinue", QUOTE>>
STOP == <<"type=", QUOTE, "stop", QUOTE>>
ENDING == <<LT, "ending">>
NUMBER_PREFIX == <<"number=", QUOTE>>
BACKWARD == <<"repeat", SPACE, "direction=", QUOTE, "backward", QUOTE>>
FORWARD == <<"repeat", SPACE, "direction=", QUOTE, "forward", QUOTE>>
LEFT_BARLINE == <<LT, "barline", SPACE, "location=", QUOTE, "left", QUOTE, GT>>
FORWARD_REPEAT == <<INDENT, LT>> \o FORWARD \o <<"/", GT>>

\* [\s,]
Separators == {SPACE, INDENT, COMMA}

\* [part.strip() for part in re.split(r'[\s,]+', numbers) if part.strip()],
\* part being the run read so far
RECURSIVE SplitParts(_, _)
SplitParts(numbers, part) ==
    IF numbers = <<>> THEN (IF part = <<>> THEN <<>> ELSE <<part>>)
    ELSE IF Head(numbers) \in Separators
         THEN (IF part = <<>> THEN <<>> ELSE <<part>>)
              \o SplitParts(Tail(numbers), <<>>)
         ELSE SplitParts(Tail(numbers), Append(part, Head(numbers)))

\* ' '.join(parts)
RECURSIVE join(_)
join(parts) ==
    IF parts = <<>> THEN <<>>
    ELSE IF Len(parts) = 1 THEN parts[1]
         ELSE parts[1] \o <<SPACE>> \o join(Tail(parts))

\* _normalize_volta on the numbers group of a match; an empty group gives the
\* match back, which is what joining no parts gives too
NormalizeVolta(numbers) == join(SplitParts(numbers, <<>>))

\* the position of the quote that closes (?P<numbers>[^"<>]*?)(?P<suffix>")
\* for a prefix ending before position i, or 0 when a bracket or the end of
\* the text comes first
RECURSIVE ClosingQuote(_, _)
ClosingQuote(text, i) ==
    IF i > Len(text) \/ text[i] \in {LT, GT} THEN 0
    ELSE IF text[i] = QUOTE THEN i
         ELSE ClosingQuote(text, i + 1)

\* the volta normalisation kept from touching anything: a mutation used to
\* test the claims
SubVoltaKeeps(text, i) == SubSeq(text, i, Len(text))

\* re.sub(number="...", _normalize_volta, text) from position i on: matches
\* are taken from the left and do not overlap
RECURSIVE SubVolta(_, _)
SubVolta(text, i) ==
    IF i > Len(text) THEN <<>>
    ELSE IF At(text, NUMBER_PREFIX, i) /\ ClosingQuote(text, i + 2) # 0
         THEN LET close == ClosingQuote(text, i + 2)
              IN  NUMBER_PREFIX
                  \o NormalizeVolta(SubSeq(text, i + 2, close - 1))
                  \o <<QUOTE>>
                  \o SubVolta(text, close + 1)
         ELSE <<text[i]>> \o SubVolta(text, i + 1)

\* the forward repeat put after every left barline: a mutation used to test
\* the claims
InsertForwardEverywhere(text) ==
    replace(text, LEFT_BARLINE, LEFT_BARLINE \o FORWARD_REPEAT, 0 - 1)

\* text.replace('<barline location="left">', ... forward repeat ..., 1)
InsertForward(text) ==
    replace(text, LEFT_BARLINE, LEFT_BARLINE \o FORWARD_REPEAT, 1)

_sanitize_musicxml(xml_content) ==
    LET decoded == decode(xml_content)
        stopped == IF Within(DISCONTINUE, decoded)
                   THEN replace(decoded, DISCONTINUE, STOP, 0 - 1)
                   ELSE decoded
        voltas == IF Within(ENDING, stopped) THEN SubVolta(stopped, 1)
                  ELSE stopped
    IN  IF Within(BACKWARD, voltas) /\ ~Within(FORWARD, voltas)
        THEN InsertForward(voltas)
        ELSE voltas

(* ---------------------- _sanitize_musicxml, applied -------------------- *)
\* number of elements a document is put together from
MaxElements == 4
\* number of pieces of an attribute a text is put together from
MaxFragments == 6

RECURSIVE Flatten(_)
Flatten(parts) == IF parts = <<>> THEN <<>> ELSE Head(parts) \o Flatten(Tail(parts))

\* the texts made of at most n of the given parts
Concatenations(parts, n) ==
    UNION {{Flatten(s) : s \in [1..k -> parts]} : k \in 0..n}

Element(name, attributes) == <<LT, name, SPACE>> \o attributes \o <<"/", GT>>

\* elements of a score that the three rules look at
Elements ==
    { Element("ending", NUMBER_PREFIX \o <<"1", COMMA, SPACE, "2", QUOTE, SPACE>>
                        \o DISCONTINUE),
      Element("ending", NUMBER_PREFIX \o <<"1", SPACE, "2", QUOTE, SPACE>> \o STOP),
      <<LT, "measure", SPACE>> \o NUMBER_PREFIX \o <<SPACE, "1", QUOTE, GT>>,
      LEFT_BARLINE,
      <<LT>> \o BACKWARD \o <<"/", GT>>,
      <<LT>> \o FORWARD \o <<"/", GT>>,
      DISCONTINUE,
      <<INVALID>> }

\* pieces of an attribute, in any arrangement
Fragments ==
    { ENDING \o <<SPACE>> \o NUMBER_PREFIX, <<QUOTE>>, <<"type=">>, <<SPACE>>,
      <<"discontinue">>, <<"1">> }

Texts == Concatenations(Elements, MaxElements)
         \cup Concatenations(Fragments, MaxFragments)

NotSanitized == <<"(not sanitized)">>

\* a text about to be sanitized
SanitizerInit ==
    /\ QInit /\ NoUpload /\ NoValidation /\ NoConversion /\ NoPieces
    /\ NoDetailsCall /\ NoPoll
    /\ san \in {[pc |-> "text", xml_content |-> text, once |-> NotSanitized,
                 twice |-> NotSanitized] : text \in Texts}

\* parse_musicxml: file_content = _sanitize_musicxml(file_content)
Sanitize ==
    /\ san.pc = "text"
    /\ san' = [san EXCEPT !.pc = "once",
                          !.once = _sanitize_musicxml(san.xml_content)]
    /\ UNCHANGED <<qvars, uvars, validation, cvars, pvars, det, live>>

\* the sanitized bytes uploaded and parsed again
SanitizeAgain ==
    /\ san.pc = "once"
    /\ san' = [san EXCEPT !.pc = "twice", !.twice = _sanitize_musicxml(san.once)]
    /\ UNCHANGED <<qvars, uvars, validation, cvars, pvars, det, live>>

SanitizerNext == Sanitize \/ SanitizeAgain

SanitizerSpec == SanitizerInit /\ [][SanitizerNext]_vars

(* ---------------------- extract_parse_error_details -------------------- *)
\* number of repeat elements in a document
MaxRepeats == 2
\* number of words in an exception message
MaxWords == 3

\* type(exception).__name__ of the exceptions music21 raises
ExceptionNames == {"ExpanderException", "MusicXMLImportException"}

\* the words an exception message is made of
Words ==
    {"pitch", "Step", "duration", "divisions", "time", "signature", "clef",
     "fret", "string", "barline", "Repeat", "unicode", "encoding",
     "XMLSyntaxError", "xml", "measure"}

\* the keywords that occur in word.lower()
KeywordsIn(word) ==
    CASE word = "Step" -> {"step"}
      [] word = "Repeat" -> {"repeat"}
      [] word = "XMLSyntaxError" -> {"xml", "syntax"}
      [] word = "measure" -> {}
      [] OTHER -> {word}

\* keyword in str(exception).lower()
InMessage(keyword, message) == \E word \in message : keyword \in KeywordsIn(word)

\* what lxml makes of xml_content: no tree at all, a score with so many
\* //barline/repeat elements, or a document whose root is the barline that
\* holds the repeats (so that the barline has no parent)
Documents ==
    {[tree |-> "none", repeats |-> 0]}
    \cup {[tree |-> "score", repeats |-> n] : n \in 0..MaxRepeats}
    \cup {[tree |-> "barline", repeats |-> n] : n \in 1..MaxRepeats}

REPEATS_FOUND == "Found multiple repeat elements in the score. Check that all forward/backward repeats are properly paired. Common issues: missing forward repeat, mismatched repeat directions, invalid ending numbers. Review all repeat locations below:"
CHECK_PITCH == "Check <pitch><step> - must be A-G. Check <alter> for accidentals (sharps/flats)."
CHECK_DURATION == "Check <duration> value - must be a positive integer representing divisions."
CHECK_DIVISIONS == "Check <divisions> in <attributes> - must be set before using <duration>."
CHECK_TIME == "Check <time><beats> and <beat-type> - must be valid integers (e.g., 4/4)."
CHECK_CLEF == "Check <clef><sign> and <line> - sign must be G/F/C/TAB, line must be valid."
CHECK_FRET == "Check <technical><fret> (0-24) and <string> (1-6 for guitar) values."
CHECK_REPEAT == "Check <barline><repeat> direction (forward/backward) and ending numbers."
CHECK_ENCODING == "File may have encoding issues. Ensure UTF-8 encoding without BOM."
CHECK_SYNTAX == "XML syntax error - check for unclosed tags, invalid characters, or malformed structure."
REVIEW_STRUCTURE == "Review the element structure and ensure it follows MusicXML 3.1+ specification."

\* the details dict as it is initialised; line, measure, xpath and the text of
\* the context lines are left out
NewDetails(exception_name, message) ==
    [element |-> None, exception_type |-> exception_name, message |-> message,
     suggestion |-> None, context_lines |-> "none", parsing_debug |-> FALSE]

\* the chain with the duration test first: a mutation used to test the claims
SmartSuggestionDurationFirst(message) ==
    IF InMessage("duration", message) THEN CHECK_DURATION
    ELSE IF InMessage("pitch", message) \/ InMessage("step", message)
    THEN CHECK_PITCH
    ELSE REVIEW_STRUCTURE

\* the if/elif chain on error_msg_lower
SmartSuggestion(message) ==
    IF InMessage("pitch", message) \/ InMessage("step", message) THEN CHECK_PITCH
    ELSE IF InMessage("duration", message) THEN CHECK_DURATION
    ELSE IF InMessage("divisions", message) THEN CHECK_DIVISIONS
    ELSE IF InMessage("time", message) /\ InMessage("signature", message)
    THEN CHECK_TIME
    ELSE IF InMessage("clef", message) THEN CHECK_CLEF
    ELSE IF InMessage("fret", message) \/ InMessage("string", message)
    THEN CHECK_FRET
    ELSE IF InMessage("barline", message) \/ InMessage("repeat", message)
    THEN CHECK_REPEAT
    ELSE IF InMessage("unicode", message) \/ InMessage("encoding", message)
    THEN CHECK_ENCODING
    ELSE IF InMessage("xml", message) /\ InMessage("syntax", message)
    THEN CHECK_SYNTAX
    ELSE REVIEW_STRUCTURE

\* the statements after the try block
Suggesting(details) ==
    [details EXCEPT !.suggestion = SmartSuggestion(details.message)]

\* the except branch, then the statements after the try block
FallingBack(details) == Suggesting([details EXCEPT !.parsing_debug = TRUE])

\* the repeat branch falling through to the chain: a mutation used to test
\* the claims
extract_details_falls_through(document, lookup_raises, exception_name, message) ==
    IF document.tree = "none" \/ lookup_raises
    THEN FallingBack(NewDetails(exception_name, message))
    ELSE Suggesting(NewDetails(exception_name, message))

\* lookup_raises: the measure/element lookup raises (an element name taken
\* from the message that is no XPath step)
extract_parse_error_details(document, lookup_raises, exception_name, message) ==
    LET details == NewDetails(exception_name, message)
        found == [details EXCEPT !.element = "<barline><repeat>",
                                 !.suggestion = REPEATS_FOUND]
    IN  IF document.tree = "none" THEN FallingBack(details)
        ELSE IF /\ \/ exception_name = "ExpanderException"
                   \/ InMessage("repeat", message)
                   \/ InMessage("barline", message)
                /\ document.repeats > 0
        THEN IF document.tree = "barline"
             THEN FallingBack(found)
             ELSE [found EXCEPT !.context_lines = "repeat_locations"]
        ELSE IF lookup_raises THEN FallingBack(details)
        ELSE Suggesting([details EXCEPT !.context_lines = "lines"])

\* the messages of at most MaxWords words
Messages == {message \in SUBSET Words : Cardinality(message) <= MaxWords}

NoDetails == [suggestion |-> None]

\* a parse failure about to be explained
DetailsInit ==
    /\ QInit /\ NoUpload /\ NoValidation /\ NoConversion /\ NoPieces
    /\ NoSanitizing /\ NoPoll
    /\ det \in {[pc |-> "call", document |-> document, lookup_raises |-> raises,
                 exception_name |-> name, message |-> message,
                 details |-> NoDetails] :
                    document \in Documents, raises \in BOOLEAN,
                    name \in ExceptionNames, message \in Messages}

\* parse_musicxml: error_details = extract_parse_error_details(...)
ExtractDetails ==
    /\ det.pc = "call"
    /\ det' = [det EXCEPT
            !.pc = "done",
            !.details = extract_parse_error_details(det.document,
                            det.lookup_raises, det.exception_name, det.message)]
    /\ UNCHANGED <<qvars, uvars, validation, cvars, pvars, san, live>>

DetailsNext == ExtractDetails

DetailsSpec == DetailsInit /\ [][DetailsNext]_vars

(* ===================== claims: _sanitize_musicxml ====================== *)
SanitizedOnce == san.pc \in {"once", "twice"}
SanitizedTwice == san.pc = "twice"

\* the positions of text where the pattern number="..." matches, each with
\* the position of its closing quote
NumberMatches(text) ==
    {<<i, ClosingQuote(text, i + 2)>> : i \in
        {j \in 1..Len(text) : At(text, NUMBER_PREFIX, j)
                              /\ ClosingQuote(text, j + 2) # 0}}

\* numbers separated by single spaces, with no white space around them
SpaceSeparated(numbers) ==
    /\ \A k \in 1..Len(numbers) : numbers[k] \notin {COMMA, INDENT}
    /\ numbers # <<>> => numbers[1] # SPACE /\ numbers[Len(numbers)] # SPACE
    /\ \A k \in 1..(Len(numbers) - 1) :
        numbers[k] = SPACE => numbers[k + 1] # SPACE

\* the number attribute at position i is the first attribute of an ending
OfEnding(text, i) == i > 3 /\ At(text, ENDING \o <<SPACE>>, i - 3)

\* text holds valid UTF-8 and is in the form the three rules leave: no
\* type="discontinue", the volta numbers of its endings separated by spaces,
\* and a forward repeat wherever there is a backward repeat
AlreadySanitary(text) ==
    /\ decode(text) = text
    /\ ~Within(DISCONTINUE, text)
    /\ \A m \in NumberMatches(text) :
        OfEnding(text, m[1]) => SpaceSeparated(SubSeq(text, m[1] + 2, m[2] - 1))
    /\ Within(BACKWARD, text) => Within(FORWARD, text)

\* C21: sanitization is idempotent: applied to its own output it returns
\* that output unchanged, and a text that already has type="stop",
\* space-separated volta numbers and a forward repeat for its backward repeat
\* is returned unchanged
C21_SanitizeIdempotent ==
    /\ SanitizedTwice => san.twice = san.once
    /\ SanitizedOnce /\ AlreadySanitary(san.xml_content)
        => san.once = san.xml_content

\* the second application changed the output of the first
C21_SecondPassChanges == SanitizedTwice /\ san.twice # san.once

\* a text in sanitary form was changed
C21_SanitaryChanged ==
    SanitizedOnce /\ AlreadySanitary(san.xml_content) /\ san.once # san.xml_content

\* the positions of text at which the pattern stands
Positions(pattern, text) == {i \in 1..Len(text) : At(text, pattern, i)}
Count(pattern, text) == Cardinality(Positions(pattern, text))
First(pattern, text) ==
    CHOOSE i \in Positions(pattern, text) :
        \A j \in Positions(pattern, text) : i <= j

\* the document has a backward repeat and no forward repeat
Unmatched(text) == Within(BACKWARD, text) /\ ~Within(FORWARD, text)

\* the output has one forward repeat, standing right after the first left
\* barline opening tag
OneForwardAfterFirstBarline ==
    /\ Count(FORWARD, san.once) = 1
    /\ Within(LEFT_BARLINE, san.once)
    /\ At(san.once, LEFT_BARLINE \o FORWARD_REPEAT, First(LEFT_BARLINE, san.once))

Explained == det.pc = "done"

\* the keyword rules in the order they are documented: a rule applies when
\* any of its keywords occurs in the message, or all of them for a rule whose
\* keywords go together
SuggestionRules ==
    << [keywords |-> {"pitch", "step"}, together |-> FALSE, suggestion |-> CHECK_PITCH],
       [keywords |-> {"duration"}, together |-> FALSE, suggestion |-> CHECK_DURATION],
       [keywords |-> {"divisions"}, together |-> FALSE, suggestion |-> CHECK_DIVISIONS],
       [keywords |-> {"time", "signature"}, together |-> TRUE, suggestion |-> CHECK_TIME],
       [keywords |-> {"clef"}, together |-> FALSE, suggestion |-> CHECK_CLEF],
       [keywords |-> {"fret", "string"}, together |-> FALSE, suggestion |-> CHECK_FRET],
       [keywords |-> {"barline", "repeat"}, together |-> FALSE, suggestion |-> CHECK_REPEAT],
       [keywords |-> {"unicode", "encoding"}, together |-> FALSE, suggestion |-> CHECK_ENCODING],
       [keywords |-> {"xml", "syntax"}, together |-> TRUE, suggestion |-> CHECK_SYNTAX] >>

Applies(rule, message) ==
    IF rule.together
    THEN \A keyword \in rule.keywords : InMessage(keyword, message)
    ELSE \E keyword \in rule.keywords : InMessage(keyword, message)

\* the suggestion of the first rule that applies, else the generic one
FirstMatch(message) ==
    LET hits == {i \in 1..Len(SuggestionRules) : Applies(SuggestionRules[i], message)}
    IN  IF hits = {} THEN REVIEW_STRUCTURE
        ELSE SuggestionRules[CHOOSE i \in hits : \A j \in hits : i <= j].suggestion

\* C30 as stated: whichever path the call takes, the suggestion is the one of
\* the first keyword rule that matches the message
C30_SuggestionByKeyword ==
    Explained => det.details.suggestion = FirstMatch(det.message)

\* C30: the suggestion is the one of the first keyword rule that matches the
\* message on the measure/element lookup path and on the fallback path; a call
\* that returns from the repeat-element enumeration gives the fixed suggestion
\* about repeat elements instead, whatever the message
C30_SuggestionByKeywordUnlessRepeats ==
    Explained =>
        det.details.suggestion =
            IF /\ det.document.tree = "score" /\ det.document.repeats > 0
               /\ \/ det.exception_name = "ExpanderException"
                  \/ InMessage("repeat", det.message)
                  \/ InMessage("barline", det.message)
            THEN REPEATS_FOUND
            ELSE FirstMatch(det.message)

\* the fallback path was taken for a message that two rules match
C30_Witness ==
    /\ Explained
    /\ det.details.parsing_debug
    /\ InMessage("duration", det.message)
    /\ InMessage("divisions", det.message)
    /\ det.details.suggestion = CHECK_DURATION

(* ============ Part VI: a status poll next to the job's writers ============ *)
(* One job of the registry at the granularity of its fields. _update_job   *)
(* and retry_conversion assign the fields one statement after another      *)
(* while they hold the registry lock; get_job_status holds the lock only   *)
(* to look the job up and returns the object itself, which the route       *)
(* serializes afterwards, without the lock.                                *)

\* the assignments of _update_job in its order, for the arguments given
\* (an argument left None is absent from the call), and
\* job.updated_at = datetime.now() at the end
UpdateOrder ==
    <<"status", "progress", "error_message", "output_musicxml_file_id",
      "output_midi_file_id", "completed_at">>

Assignments(args) ==
    LET given == SelectSeq(UpdateOrder, LAMBDA f : f \in DOMAIN args)
    IN  [i \in 1..Len(given) |-> [field |-> given[i], value |-> args[given[i]]]]
        \o <<[field |-> "updated_at", value |-> NoneInt]>>

\* the _update_job calls of a _process_conversion that succeeds, in order
UpdateCalls(job) ==
    <<[status |-> "in_progress", progress |-> 10],
      [progress |-> 30],
      [progress |-> 50],
      [progress |-> 70],
      [progress |-> 85],
      [status |-> "completed", progress |-> 100,
       output_musicxml_file_id |-> [job |-> 1, kind |-> "musicxml", n |-> 1],
       output_midi_file_id |-> [job |-> 1, kind |-> "midi", n |-> 1],
       completed_at |-> Now(job)]>>

\* the _update_job call of the except clauses
FailedCall == [status |-> "failed", error_message |-> "error"]

\* the assignments of retry_conversion under the lock
RetryAssignments ==
    <<[field |-> "status", value |-> "queued"],
      [field |-> "progress", value |-> 0],
      [field |-> "error_message", value |-> None],
      [field |-> "updated_at", value |-> NoneInt]>>

\* the job's fields that change, in the order ConversionJob declares them
ModelFields ==
    <<"status", "progress", "error_message", "output_musicxml_file_id",
      "output_midi_file_id", "updated_at", "completed_at">>

\* queue_conversion has stored the job; a worker is about to process it
PollInit ==
    /\ live = [pc |-> "polling",
               job |-> NewJob,          \* the object in the registry
               lock |-> "free",         \* who holds self._lock
               todo |-> <<>>,           \* the lock holder's assignments to come
               call |-> 1,              \* the worker's next _update_job call
               failed |-> 0,            \* attempts that have failed
               committed |-> {NewJob},  \* the job at every release of the lock
               reader |-> "idle",       \* the polling request
               view |-> <<>>]           \* the fields it has serialized
    /\ QInit /\ NoUpload /\ NoValidation /\ NoConversion /\ NoPieces
    /\ NoSanitizing /\ NoDetailsCall

Polling == live.pc = "polling"

\* the statement after a with self._lock: block that has made its last
\* assignment
Release(l) ==
    IF l.todo = <<>>
    THEN [l EXCEPT !.lock = "free", !.committed = @ \cup {l.job}]
    ELSE l

\* _update_job(...) of the worker's next step: with self._lock:
UpdateJobEnter ==
    /\ Polling
    /\ live.lock = "free"
    /\ live.call <= Len(UpdateCalls(live.job))
    /\ \E raised \in BOOLEAN :
        \* the work between two calls raises, from the conversion on
        /\ raised => live.call >= 3 /\ live.failed < MaxFailures
        /\ live' = [live EXCEPT
                !.lock = "worker",
                !.todo = Assignments(IF raised THEN FailedCall
                                     ELSE UpdateCalls(live.job)[live.call]),
                !.call = IF raised THEN Len(UpdateCalls(live.job)) + 1
                         ELSE live.call + 1,
                !.failed = IF raised THEN live.failed + 1 ELSE live.failed]

\* retry_conversion: with self._lock: ... if job.status != "failed": return
RetryEnter ==
    /\ Polling
    /\ live.lock = "free"
    /\ live.job.status = "failed"
    /\ live' = [live EXCEPT !.lock = "retry", !.todo = RetryAssignments]

\* one assignment job.<field> = <value> by the holder of the lock; the
\* accepted retry puts the job back on the work queue once it released it
Assign ==
    /\ Polling
    /\ live.lock # "free"
    /\ live.todo # <<>>
    /\ LET a == Head(live.todo)
           \* job.updated_at = datetime.now()
           value == IF a.field = "updated_at" THEN Now(live.job) ELSE a.value
           written == [live EXCEPT !.job = [@ EXCEPT ![a.field] = value],
                                   !.todo = Tail(live.todo)]
       IN  live' = [Release(written) EXCEPT
                !.call = IF live.lock = "retry" /\ Len(live.todo) = 1
                         THEN 1 ELSE @]

\* get_job_status: with self._lock: return self._jobs.get(conversion_id)
GetJobStatusObject ==
    /\ Polling
    /\ live.lock = "free"
    /\ live.reader \in {"idle", "responded"}
    /\ live' = [live EXCEPT !.reader = "serializing", !.view = <<>>]

\* return job: the response model reads the next field of the object
SerializeField ==
    /\ Polling
    /\ live.reader = "serializing"
    /\ LET field == ModelFields[Len(live.view) + 1]
           view == Append(live.view, live.job[field])
       IN  live' = [live EXCEPT
                !.view = view,
                !.reader = IF Len(view) = Len(ModelFields)
                           THEN "responded" ELSE "serializing"]

PollStep(A) == A /\ UNCHANGED <<qvars, uvars, validation, cvars, pvars, san, det>>

PollNext ==
    \/ PollStep(UpdateJobEnter)
    \/ PollStep(RetryEnter)
    \/ PollStep(Assign)
    \/ PollStep(GetJobStatusObject)
    \/ PollStep(SerializeField)

PollSpec == PollInit /\ [][PollNext]_vars

(* ======================== claims: the status poll ======================= *)
\* the job as the response of the poll shows it
Polled == Polling /\ live.reader = "responded"
Response(view) ==
    [status |-> view[1], progress |-> view[2], error_message |-> view[3],
     output_musicxml_file_id |-> view[4], output_midi_file_id |-> view[5],
     updated_at |-> view[6], completed_at |-> view[7]]

\* C24: a status poll never shows a partially applied update: the job of the
\* response is the job as it was at some release of the registry lock, and a
\* response with status completed has progress 100 and both output file ids
C24_PollSeesWholeUpdates ==
    Polled =>
        /\ Response(live.view) \in live.committed
        /\ live.view[1] = "completed" =>
            /\ live.view[2] = 100
            /\ live.view[4] # NoneFile
            /\ live.view[5] # NoneFile

====
